---- MODULE Spec2Model ----
(***************************************************************************)
(* A model of the CipherAI-SecureCloud backend (src/backend): the RSA key  *)
(* store (core/crypto.py), the envelope cipher (encrypt_file.py,           *)
(* decrypt_file.py), the authentication dependency (core/security.py) and  *)
(* the file routes (routes/files.py; app.py holds the same handlers in one *)
(* file).                                                                  *)
(*                                                                         *)
(* Granularity.  Request handlers are independent workers that share the   *)
(* key files, the three blob directories and the document store.  The sync *)
(* handlers and the get_current_user dependency run on the server's thread *)
(* pool, and several server processes can serve the same directories, so   *)
(* every access to a file or to the document store is one step of the      *)
(* model and the computation between two accesses is merged into the step  *)
(* that follows it.  Path.write_bytes / read_bytes are taken as one step.  *)
(* No operation deletes a key file, a blob or a document, and a document's *)
(* file_name never changes, so a check that finds one of them holds at any *)
(* later time: such a check is one step with the access that follows it.   *)
(* A check that finds nothing, and every read of contents that can change, *)
(* stays a step of its own.                                                *)
(*                                                                         *)
(* Text is a sequence of one-character strings, so that sanitising,        *)
(* suffixing and document-id building are computed and not assumed.        *)
(***************************************************************************)
EXTENDS Integers, Sequences, FiniteSets, TLC

(* ------------------------------------------------------------------ *)
(* Bounds of the model                                                  *)
(* ------------------------------------------------------------------ *)
\* concurrent callers of ensure_rsa_keys in SpecKeys
NKeyCallers == 3
\* concurrent request handlers in Spec
NProcs == 2

VARIABLES
  privKey,   \* the file at PRIVATE_KEY_PATH
  pubKey,    \* the file at PUBLIC_KEY_PATH
  nextRsa,   \* number of the next keypair rsa.generate_private_key returns
  nextAes,   \* number of the next value secrets.token_bytes returns
  clock,     \* the document store's clock (firestore.SERVER_TIMESTAMP)
  users,     \* the collection "users": uid -> profile
  records,   \* the collection "user_files": document id -> file record
  uploads,   \* UPLOADS_DIR: name -> blob
  encrypted, \* ENCRYPTED_DIR: name -> blob
  decrypted, \* DECRYPTED_DIR: name -> blob
  nreq,      \* requests started so far
  pc,        \* per worker: the statement it is at
  req,       \* per worker: the request it serves
  loc,       \* per worker: its local variables
  resp       \* per worker: the outcome of its last finished call

keyVars == <<privKey, pubKey, nextRsa>>
docVars == <<users, records, clock>>
dirVars == <<uploads, encrypted, decrypted>>
storeVars == <<users, records, clock, uploads, encrypted, decrypted, nextAes>>
procVars == <<pc, loc, resp>>
vars == <<privKey, pubKey, nextRsa, nextAes, clock, users, records, uploads,
          encrypted, decrypted, nreq, pc, req, loc, resp>>

KeyCallers == 1..NKeyCallers
Procs == 1..NProcs
Workers == KeyCallers \cup Procs

(* ------------------------------------------------------------------ *)
(* Key files (core/paths.py, core/crypto.py)                            *)
(* ------------------------------------------------------------------ *)
\* A path at which no file exists.
NoFile == [kind |-> "absent", id |-> 0]
\* The PEM of the private key of keypair k.  Keypair 0 is the one found on
\* disk at start; rsa.generate_private_key returns keypairs 1, 2, ...
PrivatePem(k) == [kind |-> "private", id |-> k]
\* private_key.public_key().public_bytes(...): the PEM of the public key that
\* belongs to a private key.
public_key(private_pem) == [kind |-> "public", id |-> private_pem.id]
\* Path.exists()
exists(f) == f.kind # "absent"
\* A key file whose bytes are not a PEM the library can deserialize.
DamagedPem == [kind |-> "damaged", id |-> 0]
\* serialization.load_pem_public_key(bytes): ok is FALSE where it raises
\* ValueError.
load_pem_public_key(f) == [ok |-> f.kind = "public", key |-> f]

\* A wrap that stores the AES key as it is.
rsa_encrypt_raw(aes_key, public_pem) ==
  [kind |-> "raw", pair |-> public_pem.id, key |-> aes_key]

\* RSA-OAEP: public_key.encrypt(aes_key, OAEP(...)).  The result opens only
\* under the private key of the same keypair.
rsa_encrypt(aes_key, public_pem) ==
  [kind |-> "oaep", pair |-> public_pem.id, key |-> aes_key]
\* A decryption that opens a wrapped key under any private key.
rsa_decrypt_any_pair(encrypted_key, private_pem) ==
  IF encrypted_key.kind = "oaep" /\ private_pem.kind = "private"
  THEN [ok |-> TRUE, key |-> encrypted_key.key]
  ELSE [ok |-> FALSE, key |-> 0]

\* private_key.decrypt(encrypted_key, OAEP(...)): ok is FALSE where the
\* library raises ValueError.
rsa_decrypt(encrypted_key, private_pem) ==
  IF encrypted_key.kind = "oaep" /\ private_pem.kind = "private"
       /\ encrypted_key.pair = private_pem.id
  THEN [ok |-> TRUE, key |-> encrypted_key.key]
  ELSE [ok |-> FALSE, key |-> 0]

(* ------------------------------------------------------------------ *)
(* Text, file names and document ids (routes/files.py 33-50)            *)
(* ------------------------------------------------------------------ *)
Letters ==
  {"a","b","c","d","e","f","g","h","i","j","k","l","m",
   "n","o","p","q","r","s","t","u","v","w","x","y","z",
   "A","B","C","D","E","F","G","H","I","J","K","L","M",
   "N","O","P","Q","R","S","T","U","V","W","X","Y","Z"}
Digits == {"0","1","2","3","4","5","6","7","8","9"}
\* the character class [A-Za-z0-9._-] of line 41
SafeChars == Letters \cup Digits \cup {".", "_", "-"}

\* str.endswith
endswith(s, suffix) ==
  /\ Len(s) >= Len(suffix)
  /\ SubSeq(s, Len(s) - Len(suffix) + 1, Len(s)) = suffix

\* str.rfind(c): the last position of c in s, 0 when there is none
\* (positions count from 1 here, from 0 in Python).
RECURSIVE rfind(_, _)
rfind(s, c) ==
  IF s = <<>> THEN 0
  ELSE IF s[Len(s)] = c THEN Len(s)
  ELSE rfind(SubSeq(s, 1, Len(s) - 1), c)

\* PurePosixPath(s).name: the last component of s, where empty components
\* and "." components are dropped by pathlib and ".." is kept.
RECURSIVE PathName(_)
PathName(s) ==
  IF s = <<>> THEN <<>>
  ELSE LET i == rfind(s, "/")
           last == SubSeq(s, i + 1, Len(s))
       IN IF last = <<>> \/ last = <<".">>
          THEN (IF i = 0 THEN <<>> ELSE PathName(SubSeq(s, 1, i - 1)))
          ELSE last

\* PurePosixPath(s).stem: the name without its last suffix; a name that
\* starts with its only dot, or ends with a dot, has no suffix.
PathStem(s) ==
  LET name == PathName(s)
      i == rfind(name, ".")
  IN IF 1 < i /\ i < Len(name) THEN SubSeq(name, 1, i - 1) ELSE name

\* A substitution that puts a separator where re.sub puts "_".
re_sub_separator(candidate) ==
  [i \in 1..Len(candidate) |->
     IF candidate[i] \in SafeChars THEN candidate[i] ELSE "/"]

\* A substitution whose class also lets ":" through.
re_sub_keeps_colon(candidate) ==
  [i \in 1..Len(candidate) |->
     IF candidate[i] \in SafeChars \cup {":"} THEN candidate[i] ELSE "_"]

\* re.sub(r"[^A-Za-z0-9._-]", "_", candidate)
re_sub(candidate) ==
  [i \in 1..Len(candidate) |->
     IF candidate[i] \in SafeChars THEN candidate[i] ELSE "_"]

\* sanitize_filename: ok is FALSE where it raises HTTPException(400).
sanitize_filename(filename) ==
  IF filename = <<>>
  THEN [ok |-> FALSE, name |-> <<>>, detail |-> "Filename is required"]
  ELSE LET safe_name == re_sub(PathName(filename))
       IN IF safe_name = <<>>
          THEN [ok |-> FALSE, name |-> <<>>, detail |-> "Filename is not valid"]
          ELSE [ok |-> TRUE, name |-> safe_name, detail |-> ""]

\* doc_id = f"{uid}:{safe_name}" of _file_doc_ref
doc_id(uid, safe_name) == uid \o <<":">> \o safe_name

DotEnc == <<".", "e", "n", "c">>
DotKey == <<".", "k", "e", "y">>
UploadBin == <<"u","p","l","o","a","d",".","b","i","n">>

(* ------------------------------------------------------------------ *)
(* Files, directories and documents                                     *)
(* ------------------------------------------------------------------ *)
\* A directory or a collection maps the names it holds to their contents.
Put(dir, name, content) ==
  [n \in (DOMAIN dir) \cup {name} |-> IF n = name THEN content ELSE dir[n]]
Has(dir, name) == name \in DOMAIN dir
Empty == [n \in {} |-> 0]

\* A blob: its bytes, and (a history field the code does not have) the users
\* whose requests the bytes come from.
Blob(bytes, by) == [bytes |-> bytes, by |-> by]

\* open(path, "wb"): the file is created or truncated.
truncate(dir, name) == Put(dir, name, Blob(<<>>, {}))

\* buffer.write(chunk) on a file opened "wb": the bytes go in from offset 0
\* and what another writer put beyond them stays.
write_from_start(dir, name, data, uid) ==
  LET old == IF Has(dir, name) THEN dir[name] ELSE Blob(<<>>, {})
      n == Len(data)
      rest == IF old.bytes \in Seq(Int) /\ Len(old.bytes) > n
              THEN SubSeq(old.bytes, n + 1, Len(old.bytes)) ELSE <<>>
  IN Put(dir, name,
         Blob(data \o rest, IF rest = <<>> THEN {uid} ELSE old.by \cup {uid}))

\* Firestore's DocumentReference.set(fields, merge=True): the fields given
\* replace those of the document, the others stay.
set_merge(coll, id, fields) ==
  Put(coll, id,
      IF Has(coll, id)
      THEN [f \in (DOMAIN coll[id]) \cup (DOMAIN fields) |->
              IF f \in DOMAIN fields THEN fields[f] ELSE coll[id][f]]
      ELSE fields)

\* Python's None, and base64.b64encode / b64decode of the wrapped key
None == [t |-> "None"]
b64encode(bytes) == [t |-> "b64", of |-> bytes]
b64decode(text) ==
  IF text.t = "b64" THEN [ok |-> TRUE, bytes |-> text.of]
  ELSE [ok |-> FALSE, bytes |-> None]

(* ------------------------------------------------------------------ *)
(* Workers                                                              *)
(* ------------------------------------------------------------------ *)
\* A response: to is the uid it goes to (<<>> before authentication) and op
\* the operation it answers ("" for authentication alone); finish fills both
\* in.
NoResp == [status |-> 0, detail |-> "", body |-> None, to |-> <<>>, op |-> ""]
\* raise HTTPException(status_code=status, detail=detail); an exception no
\* handler catches is answered with status 500.
Resp(status, detail) ==
  [status |-> status, detail |-> detail, body |-> None, to |-> <<>>, op |-> ""]
\* a handler returns body
Ok(body) == [status |-> 200, detail |-> "", body |-> body, to |-> <<>>, op |-> ""]

NoReq ==
  [op |-> "", token |-> "", uid |-> <<>>, filename |-> <<>>, category |-> "",
   data |-> <<>>, files |-> <<>>, metadata |-> None]

LocInit ==
  [ret |-> "", private_key |-> NoFile, snapshot_exists |-> FALSE,
   public_key |-> None, safe_name |-> <<>>, size |-> 0, index |-> 0,
   results |-> <<>>, item |-> None, aes_key |-> 0, blob |-> None,
   encrypted_key |-> None, stored_aes_key |-> None]

\* A call ends: the worker is idle again and its outcome is recorded.
finish(p, r) ==
  /\ pc' = [pc EXCEPT ![p] = "idle"]
  /\ req' = [req EXCEPT ![p] = NoReq]
  /\ loc' = [loc EXCEPT ![p] = LocInit]
  /\ resp' = [resp EXCEPT ![p] = [r EXCEPT !.to = req[p].uid,
                                          !.op = req[p].op]]

goto(p, label) == pc' = [pc EXCEPT ![p] = label] /\ UNCHANGED req

(* ------------------------------------------------------------------ *)
(* ensure_rsa_keys (core/crypto.py 18-64, app.py 100-146)               *)
(* ------------------------------------------------------------------ *)
refuses_never(public_pem, private_pem) == FALSE

\* line 41: public exists and private does not.  The two exists() calls are
\* one step: no operation deletes a key file, so reading them one after the
\* other gives the same answer.
refuses(public_pem, private_pem) == exists(public_pem) /\ ~exists(private_pem)

\* ensure_rsa_keys returns to its caller.
\* The note says which branch returned; the function itself returns None.
ek_return(p, note) ==
  IF loc[p].ret = "bare"
  THEN finish(p, Resp(200, note))
  ELSE /\ goto(p, loc[p].ret)
       /\ loc' = [loc EXCEPT ![p].private_key = NoFile]
       /\ UNCHANGED resp

\* A direct call of ensure_rsa_keys(PUBLIC_KEY_PATH, PRIVATE_KEY_PATH).
call_ensure_rsa_keys(p) ==
  /\ pc[p] = "idle"
  /\ pc' = [pc EXCEPT ![p] = "ek_26"]
  /\ loc' = [loc EXCEPT ![p] = [LocInit EXCEPT !.ret = "bare"]]
  /\ resp' = [resp EXCEPT ![p] = NoResp]
  /\ UNCHANGED <<keyVars, storeVars, req, nreq>>

\* ek_26 without the checks of lines 26-27: every call generates a keypair.
ek_26_regenerates(p) ==
  /\ pc[p] = "ek_26"
  /\ goto(p, "ek_41") /\ UNCHANGED <<loc, resp>>
  /\ UNCHANGED <<keyVars, storeVars, nreq>>

\* line 26: if private_key_path.exists(); line 27: if not
\* public_key_path.exists(); line 39: return.  No operation deletes a key
\* file, so a private key seen at line 26 is still there at line 27 and the
\* two calls are one step.
ek_26(p) ==
  /\ pc[p] = "ek_26"
  /\ IF ~exists(privKey) THEN goto(p, "ek_41") /\ UNCHANGED <<loc, resp>>
     ELSE IF ~exists(pubKey) THEN goto(p, "ek_28") /\ UNCHANGED <<loc, resp>>
     ELSE ek_return(p, "both keys exist")
  /\ UNCHANGED <<keyVars, storeVars, nreq>>

\* lines 28-36: load the private key and derive the public PEM from it
ek_28(p) ==
  /\ pc[p] = "ek_28"
  /\ loc' = [loc EXCEPT ![p].private_key = privKey]
  /\ goto(p, "ek_38")
  /\ UNCHANGED <<keyVars, storeVars, nreq, resp>>

ek_38_fresh(p) ==
  /\ pc[p] = "ek_38"
  /\ pubKey' = public_key(PrivatePem(nextRsa))
  /\ ek_return(p, "derived public key")
  /\ UNCHANGED <<privKey, nextRsa, storeVars, nreq>>

\* line 38: public_key_path.write_bytes(public_pem); line 39: return
ek_38(p) ==
  /\ pc[p] = "ek_38"
  /\ pubKey' = public_key(loc[p].private_key)
  /\ ek_return(p, "derived public key")
  /\ UNCHANGED <<privKey, nextRsa, storeVars, nreq>>

\* lines 41-45: refuse when only the public key exists; otherwise
\* lines 48-59: generate a fresh keypair
ek_41(p) ==
  /\ pc[p] = "ek_41"
  /\ IF refuses(pubKey, privKey)
     THEN /\ finish(p, Resp(500, "Missing private key at PRIVATE_KEY_PATH. Cannot decrypt without it."))
          /\ UNCHANGED keyVars
     ELSE /\ loc' = [loc EXCEPT ![p].private_key = PrivatePem(nextRsa)]
          /\ nextRsa' = nextRsa + 1
          /\ goto(p, "ek_63")
          /\ UNCHANGED <<privKey, pubKey, resp>>
  /\ UNCHANGED <<storeVars, nreq>>

\* line 63: private_key_path.write_bytes(private_pem)
ek_63(p) ==
  /\ pc[p] = "ek_63"
  /\ privKey' = loc[p].private_key
  /\ goto(p, "ek_64")
  /\ UNCHANGED <<pubKey, nextRsa, storeVars, nreq, loc, resp>>

\* line 64: public_key_path.write_bytes(public_pem)
ek_64(p) ==
  /\ pc[p] = "ek_64"
  /\ pubKey' = public_key(loc[p].private_key)
  /\ ek_return(p, "generated keypair")
  /\ UNCHANGED <<privKey, nextRsa, storeVars, nreq>>

ensure_rsa_keys(p) ==
  \/ ek_26(p) \/ ek_28(p) \/ ek_38(p)
  \/ ek_41(p) \/ ek_63(p) \/ ek_64(p)

(* ------------------------------------------------------------------ *)
(* get_current_user and _sync_user_profile (core/security.py 45-81)     *)
(* ------------------------------------------------------------------ *)
\* The handler of a request, entered once get_current_user has returned.
\* encrypt_endpoint and decrypt_endpoint begin by calling ensure_rsa_keys.
entry(op) ==
  CASE op = "upload" -> "up_101"
    [] op = "batch" -> "bt_157"
    [] op = "encrypt" -> "ek_26"
    [] op = "decrypt" -> "ek_26"
    [] OTHER -> "dl_377"

after_keys(op) ==
  CASE op = "encrypt" -> "enc_253"
    [] op = "decrypt" -> "dec_303"
    [] OTHER -> ""

\* get_current_user without the ensure_rsa_keys call of line 53.
begin_without_keys(p, token, uid) ==
  /\ pc[p] = "idle"
  /\ nreq' = nreq + 1
  /\ IF token = "missing"
     THEN finish(p, Resp(401, "Missing bearer token"))
     ELSE IF token # "valid"
     THEN finish(p, Resp(401, "Invalid or expired token"))
     ELSE /\ pc' = [pc EXCEPT ![p] = "sync_55"]
          /\ req' = [req EXCEPT ![p] =
               [NoReq EXCEPT !.token = token, !.uid = uid]]
          /\ loc' = [loc EXCEPT ![p] =
               [LocInit EXCEPT !.ret = "sync_55",
                               !.snapshot_exists = Has(users, uid)]]
          /\ resp' = [resp EXCEPT ![p] = NoResp]
  /\ UNCHANGED <<keyVars, storeVars>>

\* A request arrives with its bearer token.  Lines 77-79: a missing or
\* rejected token is answered 401.  Lines 46-52: the uid of the verified
\* token and the snapshot of its profile; line 53 calls ensure_rsa_keys.
\* Nothing reads the rest of the request before its handler is entered, so
\* the handler's inputs are drawn there (the start_ actions).
begin(p, token, uid) ==
  /\ pc[p] = "idle"
  /\ nreq' = nreq + 1
  /\ IF token = "missing"
     THEN finish(p, Resp(401, "Missing bearer token"))
     ELSE IF token # "valid"
     THEN finish(p, Resp(401, "Invalid or expired token"))
     ELSE /\ pc' = [pc EXCEPT ![p] = "ek_26"]
          /\ req' = [req EXCEPT ![p] =
               [NoReq EXCEPT !.token = token, !.uid = uid]]
          /\ loc' = [loc EXCEPT ![p] =
               [LocInit EXCEPT !.ret = "sync_55",
                               !.snapshot_exists = Has(users, uid)]]
          /\ resp' = [resp EXCEPT ![p] = NoResp]
  /\ UNCHANGED <<keyVars, storeVars>>

\* lines 54-56: read the public key file if it exists
sync_55(p) ==
  /\ pc[p] = "sync_55"
  /\ loc' = [loc EXCEPT ![p].public_key =
               IF exists(pubKey) THEN pubKey ELSE None]
  /\ goto(p, "sync_71")
  /\ UNCHANGED <<keyVars, storeVars, nreq, resp>>

\* UserModel(...).dict(exclude_none=True) of lines 58-69: a None public key
\* is left out, createdAt is set for a new profile.  The token's email, name
\* and picture and the value of the two timestamps are not modelled.
profile(uid, public_pem, snapshot_exists) ==
  LET base == [uid |-> uid, lastLogin |-> TRUE]
      with_key == IF public_pem = None THEN base
                  ELSE [f \in {"uid", "lastLogin", "public_key"} |->
                          IF f = "public_key" THEN public_pem ELSE base[f]]
  IN IF snapshot_exists THEN with_key
     ELSE [f \in (DOMAIN with_key) \cup {"createdAt"} |->
             IF f = "createdAt" THEN TRUE ELSE with_key[f]]

\* line 71: doc_ref.set(profile, merge=True); get_current_user returns
sync_71(p) ==
  /\ pc[p] = "sync_71"
  /\ users' = set_merge(users, req[p].uid,
                profile(req[p].uid, loc[p].public_key, loc[p].snapshot_exists))
  /\ goto(p, "handler")
  /\ loc' = [loc EXCEPT ![p] = LocInit]
  /\ UNCHANGED <<keyVars, records, clock, dirVars, nextAes, nreq, resp>>

\* The route's handler is called with the request r.
dispatch(p, r) ==
  /\ pc[p] = "handler"
  /\ pc' = [pc EXCEPT ![p] = entry(r.op)]
  /\ req' = [req EXCEPT ![p] = r]
  /\ loc' = [loc EXCEPT ![p] = [LocInit EXCEPT !.ret = after_keys(r.op)]]
  /\ UNCHANGED <<keyVars, storeVars, nreq, resp>>

\* GET /auth/me (routes/auth.py 20-22): the handler returns the user that
\* get_current_user gave it
auth_me(p) ==
  /\ pc[p] = "handler"
  /\ finish(p, Ok([uid |-> req[p].uid]))
  /\ UNCHANGED <<keyVars, storeVars, nreq>>

(* ------------------------------------------------------------------ *)
(* upload_file (routes/files.py 96-148, app.py 252-294)                 *)
(* ------------------------------------------------------------------ *)
\* FileModel(**kw) (models/files.py 8-17): pydantic raises ValidationError
\* for a None given to the field declared "aes_key: str".
FileModelValid(kw) == kw.aes_key # None

\* file.filename or "upload.bin"
or_default(filename) == IF filename = <<>> THEN UploadBin ELSE filename

up_101_overwrite(p) ==
  /\ pc[p] = "up_101"
  /\ LET sn == sanitize_filename(or_default(req[p].filename))
     IN IF ~sn.ok THEN finish(p, Resp(400, sn.detail))
        ELSE /\ goto(p, "up_107")
             /\ loc' = [loc EXCEPT ![p].safe_name = sn.name]
             /\ UNCHANGED resp
  /\ UNCHANGED <<keyVars, storeVars, nreq>>

\* lines 101-105: sanitize the name; 409 if the destination exists
up_101(p) ==
  /\ pc[p] = "up_101"
  /\ LET sn == sanitize_filename(or_default(req[p].filename))
     IN IF ~sn.ok THEN finish(p, Resp(400, sn.detail))
        ELSE IF Has(uploads, sn.name)
        THEN finish(p, Resp(409, "A file with this name already exists."))
        ELSE /\ goto(p, "up_107")
             /\ loc' = [loc EXCEPT ![p].safe_name = sn.name]
             /\ UNCHANGED resp
  /\ UNCHANGED <<keyVars, storeVars, nreq>>

\* line 107: destination.open("wb")
up_107(p) ==
  /\ pc[p] = "up_107"
  /\ uploads' = truncate(uploads, loc[p].safe_name)
  /\ goto(p, "up_108")
  /\ UNCHANGED <<keyVars, docVars, encrypted, decrypted, nextAes, nreq,
                 loc, resp>>

\* lines 108-112: the chunks are written and the file is closed
up_108(p) ==
  /\ pc[p] = "up_108"
  /\ uploads' = write_from_start(uploads, loc[p].safe_name, req[p].data,
                                 req[p].uid)
  /\ goto(p, "up_114")
  /\ UNCHANGED <<keyVars, docVars, encrypted, decrypted, nextAes, nreq,
                 loc, resp>>

\* The fields upload_file gives FileModel (lines 115-125).
upload_model(uid, safe_name, size) ==
  [uid |-> uid, file_name |-> safe_name, size |-> size,
   last_opened_at |-> 0, tag_id |-> None, expiry_time |-> None,
   advance_security |-> FALSE, aes_key |-> None]

\* The document upload_file sets (lines 127-138), with the field names of
\* the source.
upload_doc(uid, safe_name, size, now) ==
  [uid |-> uid, file_name |-> safe_name, size |-> size, uploaded_at |-> now,
   last_opemed_at |-> 0, tad_id |-> None, expiry_time |-> None,
   advance_seciroty |-> FALSE, aes_key |-> None]

\* lines 114-148: stat the destination, build the FileModel (an uncaught
\* ValidationError is answered 500), set the document and return.
up_114(p) ==
  /\ pc[p] = "up_114"
  /\ LET name == loc[p].safe_name
         size == Len(uploads[name].bytes)
     IN IF ~FileModelValid(upload_model(req[p].uid, name, size))
        THEN /\ finish(p, Resp(500, "ValidationError: FileModel aes_key"))
             /\ UNCHANGED <<records, clock>>
        ELSE /\ records' = set_merge(records, doc_id(req[p].uid, name),
                             upload_doc(req[p].uid, name, size, clock))
             /\ clock' = clock + 1
             /\ finish(p, Ok([file_name |-> name, size |-> size,
                              directory |-> "uploads"]))
  /\ UNCHANGED <<keyVars, users, dirVars, nextAes, nreq>>

(* ------------------------------------------------------------------ *)
(* upload_files_multiple (routes/files.py 151-244, app.py 309-402)      *)
(* ------------------------------------------------------------------ *)
MAX_UPLOAD_FILES == 15

Str(s) == [t |-> "str", s |-> s]

\* str.strip()
RECURSIVE strip(_)
strip(s) ==
  IF s = <<>> THEN s
  ELSE IF s[1] = " " THEN strip(Tail(s))
  ELSE IF s[Len(s)] = " " THEN strip(SubSeq(s, 1, Len(s) - 1))
  ELSE s

\* _parse_expiry (lines 68-81): None unless the value is a string that is
\* not blank (a datetime cannot come out of json.loads).
parse_expiry(expiry_value) ==
  IF expiry_value.t = "str" /\ strip(expiry_value.s) # <<>>
  THEN Str(strip(expiry_value.s))
  ELSE None

\* lines 173-182, 190-195: the metadata of the file at position index
\* (counted from 1).  A list is filtered to its objects and read by
\* position; an object is read by the original name, then the safe name.
RECURSIVE only_dicts(_)
only_dicts(items) ==
  IF items = <<>> THEN <<>>
  ELSE IF items[1].isdict THEN <<items[1]>> \o only_dicts(Tail(items))
  ELSE only_dicts(Tail(items))

EmptyMeta == [isdict |-> TRUE, key |-> <<>>, tag_id |-> None, expiry_time |-> None]

is_empty_dict(item) == item.tag_id = None /\ item.expiry_time = None

meta_get(items, key) ==
  LET hits == {i \in 1..Len(items) : items[i].isdict /\ items[i].key = key}
  IN IF hits = {} THEN EmptyMeta
     ELSE items[CHOOSE i \in hits : \A j \in hits : j <= i]

item_meta(metadata, index, original_name, safe_name) ==
  IF metadata.kind = "list"
  THEN LET meta_by_index == only_dicts(metadata.items)
       IN IF index <= Len(meta_by_index) THEN meta_by_index[index] ELSE EmptyMeta
  ELSE LET first == meta_get(metadata.items, original_name)
       IN IF ~is_empty_dict(first) THEN first
          ELSE meta_get(metadata.items, safe_name)

\* line 200: isinstance(tag_id, str) and tag_id.strip()
tag_ok(tag_id) == tag_id.t = "str" /\ strip(tag_id.s) # <<>>

\* lines 186-211: the file at position i of the batch: its name, its
\* metadata, and 409 if the destination exists; line 244 once the files are
\* done
batch_item(p, i) ==
  LET r == req[p]
  IN IF i > Len(r.files)
     THEN finish(p, Ok([files |-> loc[p].results]))
     ELSE LET original_name == or_default(r.files[i].filename)
              sn == sanitize_filename(original_name)
              meta == item_meta(r.metadata, i, original_name, sn.name)
          IN IF ~sn.ok THEN finish(p, Resp(400, sn.detail))
             ELSE IF ~tag_ok(meta.tag_id)
             THEN finish(p, Resp(400, "Missing tag"))
             ELSE IF parse_expiry(meta.expiry_time) = None
             THEN finish(p, Resp(400, "Missing expiry time"))
             ELSE IF Has(uploads, sn.name)
             THEN finish(p, Resp(409, "A file with this name already exists"))
             ELSE /\ goto(p, "bt_213")
                  /\ loc' = [loc EXCEPT ![p].safe_name = sn.name,
                                        ![p].item = meta,
                                        ![p].index = i]
                  /\ UNCHANGED resp

\* lines 157-182: the checks made before any file is looked at, which read
\* the request only, and the first file
bt_157(p) ==
  /\ pc[p] = "bt_157"
  /\ LET r == req[p]
     IN IF r.files = <<>> THEN finish(p, Resp(400, "No files provided"))
        ELSE IF Len(r.files) > MAX_UPLOAD_FILES
        THEN finish(p, Resp(400, "Maximum allowed files per upload is 15."))
        ELSE IF r.metadata.kind = "invalid"
        THEN finish(p, Resp(400, "Invalid metadata JSON"))
        ELSE IF r.metadata.kind \notin {"list", "dict"}
        THEN finish(p, Resp(400, "metadata must be a list or object"))
        ELSE batch_item(p, 1)
  /\ UNCHANGED <<keyVars, storeVars, nreq>>

\* the next file of the batch
bt_187(p) ==
  /\ pc[p] = "bt_187"
  /\ batch_item(p, loc[p].index)
  /\ UNCHANGED <<keyVars, storeVars, nreq>>

\* line 213: destination.open("wb")
bt_213(p) ==
  /\ pc[p] = "bt_213"
  /\ uploads' = truncate(uploads, loc[p].safe_name)
  /\ goto(p, "bt_214")
  /\ UNCHANGED <<keyVars, docVars, encrypted, decrypted, nextAes, nreq,
                 loc, resp>>

\* lines 214-218: the chunks are written and the file is closed
bt_214(p) ==
  /\ pc[p] = "bt_214"
  /\ uploads' = write_from_start(uploads, loc[p].safe_name,
                                 req[p].files[loc[p].index].data, req[p].uid)
  /\ goto(p, "bt_220")
  /\ UNCHANGED <<keyVars, docVars, encrypted, decrypted, nextAes, nreq,
                 loc, resp>>

\* lines 220-224: destination.stat().st_size
bt_220(p) ==
  /\ pc[p] = "bt_220"
  /\ loc' = [loc EXCEPT ![p].size = Len(uploads[loc[p].safe_name].bytes)]
  /\ goto(p, "bt_232")
  /\ UNCHANGED <<keyVars, storeVars, nreq, resp>>

\* The document of lines 221-231.
batch_doc(uid, safe_name, size, now, meta) ==
  [uid |-> uid, file_name |-> safe_name, size |-> size, uploaded_at |-> now,
   last_opemed_at |-> 0, tag_id |-> Str(strip(meta.tag_id.s)),
   expiry_time |-> parse_expiry(meta.expiry_time),
   advance_security |-> FALSE, aes_key |-> None]

\* lines 232-242 without the doc_ref.set of line 232.
bt_232_no_record(p) ==
  /\ pc[p] = "bt_232"
  /\ records' = records
  /\ clock' = clock
  /\ loc' = [loc EXCEPT ![p].index = @ + 1,
                        ![p].results = Append(@, loc[p].safe_name),
                        ![p].safe_name = <<>>, ![p].size = 0, ![p].item = None]
  /\ goto(p, "bt_187")
  /\ UNCHANGED <<keyVars, users, dirVars, nextAes, nreq, resp>>

\* lines 232-242: doc_ref.set(record, merge=True), results.append, next file
bt_232(p) ==
  /\ pc[p] = "bt_232"
  /\ records' = set_merge(records, doc_id(req[p].uid, loc[p].safe_name),
                  batch_doc(req[p].uid, loc[p].safe_name, loc[p].size, clock,
                            loc[p].item))
  /\ clock' = clock + 1
  /\ loc' = [loc EXCEPT ![p].index = @ + 1,
                        ![p].results = Append(@, loc[p].safe_name),
                        ![p].safe_name = <<>>, ![p].size = 0, ![p].item = None]
  /\ goto(p, "bt_187")
  /\ UNCHANGED <<keyVars, users, dirVars, nextAes, nreq, resp>>

(* ------------------------------------------------------------------ *)
(* The envelope cipher (encrypt_file.py 15-53, decrypt_file.py 14-54)   *)
(* ------------------------------------------------------------------ *)
\* PKCS7(128): the block size in bytes
BlockSize == 16

\* A padder that adds nothing to data already a whole number of blocks.
pkcs7_pad_to_multiple(data) ==
  LET n == (BlockSize - (Len(data) % BlockSize)) % BlockSize
  IN data \o [i \in 1..n |-> n]

\* padding.PKCS7(128).padder(): n bytes of value n, 1 <= n <= 16, bring the
\* length to a multiple of the block size.
pkcs7_pad(data) ==
  LET n == BlockSize - (Len(data) % BlockSize)
  IN data \o [i \in 1..n |-> n]

\* padding.PKCS7(128).unpadder(): ok is FALSE where finalize raises
\* ValueError.
pkcs7_unpad(padded) ==
  LET len == Len(padded)
      n == IF len = 0 THEN 0 ELSE padded[len]
  IN IF len > 0 /\ len % BlockSize = 0 /\ n >= 1 /\ n <= BlockSize
        /\ \A i \in (len - n + 1)..len : padded[i] = n
     THEN [ok |-> TRUE, data |-> SubSeq(padded, 1, len - n)]
     ELSE [ok |-> FALSE, data |-> <<>>]

\* AES-256-CBC as a cipher the model cannot look into: the ciphertext names
\* the key and the IV it was made with.  flip is <<>>, or <<i, b>> once bit b
\* of byte i of the stored bytes has been flipped.
aes_cbc_encrypt(aes_key, iv, padded) ==
  [t |-> "cbc", key |-> aes_key, iv |-> iv, padded |-> padded, flip |-> <<>>]

\* b XOR (1 << bit) for a byte b
flip_bit(b, bit) ==
  IF (b \div (2 ^ bit)) % 2 = 1 THEN b - 2 ^ bit ELSE b + 2 ^ bit

\* What a block decrypts to that the model cannot compute: bytes the
\* unpadder rejects at the end of the data (zeros), or accepts (255s with a
\* last byte 1).
GarbageBlocks ==
  { [i \in 1..BlockSize |-> 0],
    [i \in 1..BlockSize |-> IF i = BlockSize THEN 1 ELSE 255] }

\* The bytes the decryptor can give.  Under the key and IV of the
\* ciphertext they are the padded plaintext.  CBC has no integrity check:
\* under another key or IV the decryptor gives as many bytes that depend on
\* the key, which the unpadder rejects (here zeros) or, when they happen to
\* end like a padding, accepts (here 255s with a last byte 1).  Plaintext
\* block k is D(c[k]) XOR c[k-1], with the IV as c[0]: a flipped bit of the
\* IV flips that bit of the first block, and a flipped bit of ciphertext
\* block k makes block k key-dependent bytes and flips that bit of block
\* k + 1.
aes_cbc_decrypt(aes_key, iv, ciphertext) ==
  LET n == Len(ciphertext.padded)
  IN IF ciphertext.key # aes_key \/ ciphertext.iv # iv.id
     THEN { [i \in 1..n |-> 0],
            [i \in 1..n |-> IF i = n THEN 1 ELSE 255] }
     ELSE LET p1 == IF iv.flip = <<>> THEN ciphertext.padded
                    ELSE [ciphertext.padded EXCEPT
                            ![iv.flip[1]] = flip_bit(@, iv.flip[2])]
          IN IF ciphertext.flip = <<>> THEN {p1}
             ELSE LET pos == ciphertext.flip[1]
                      first == ((pos - 1) \div BlockSize) * BlockSize + 1
                  IN { [i \in 1..n |->
                          IF i \in first..(first + BlockSize - 1)
                          THEN g[i - first + 1]
                          ELSE IF i = pos + BlockSize
                          THEN flip_bit(p1[i], ciphertext.flip[2])
                          ELSE p1[i]] : g \in GarbageBlocks }

\* iv + encrypted_data (encrypt_file.py 41), split again by blob[:16],
\* blob[16:] (decrypt_file.py 43-44)
iv_and_ciphertext(iv, ciphertext) ==
  [t |-> "blob", iv |-> [id |-> iv, flip |-> <<>>], ciphertext |-> ciphertext]

enc_name(safe_name) == safe_name \o DotEnc
key_name(safe_name) == safe_name \o DotKey

(* ------------------------------------------------------------------ *)
(* encrypt_endpoint (routes/files.py 247-293, app.py 405-451)           *)
(* ------------------------------------------------------------------ *)
\* body.get("file_name") or body.get("filename"), and the check of line 254
name_given(request_name) == strip(request_name) # <<>>

\* enc_253 with the check of line 264 in front of the one of line 259.
enc_253_blob_first(p) ==
  /\ pc[p] = "enc_253"
  /\ LET sn == sanitize_filename(req[p].filename)
         name == sn.name
     IN IF ~name_given(req[p].filename)
        THEN finish(p, Resp(400, "file_name is required")) /\ UNCHANGED nextAes
        ELSE IF ~sn.ok
        THEN finish(p, Resp(400, sn.detail)) /\ UNCHANGED nextAes
        ELSE IF ~Has(uploads, name)
        THEN /\ finish(p, Resp(404, "Source file not found in uploads"))
             /\ UNCHANGED nextAes
        ELSE IF ~Has(records, doc_id(req[p].uid, name))
        THEN /\ finish(p, Resp(404, "File metadata not found for user"))
             /\ UNCHANGED nextAes
        ELSE /\ loc' = [loc EXCEPT
                  ![p].safe_name = name,
                  ![p].aes_key = nextAes,
                  ![p].blob = Blob(iv_and_ciphertext(nextAes,
                                     aes_cbc_encrypt(nextAes, nextAes,
                                       pkcs7_pad(uploads[name].bytes))),
                                   uploads[name].by \cup {req[p].uid})]
             /\ nextAes' = nextAes + 1
             /\ goto(p, "ef_41")
             /\ UNCHANGED resp
  /\ UNCHANGED <<keyVars, docVars, dirVars, nreq>>

\* enc_253 without the record lookup of lines 257-260.
enc_253_any_owner(p) ==
  /\ pc[p] = "enc_253"
  /\ LET sn == sanitize_filename(req[p].filename)
         name == sn.name
     IN IF ~name_given(req[p].filename)
        THEN finish(p, Resp(400, "file_name is required")) /\ UNCHANGED nextAes
        ELSE IF ~sn.ok
        THEN finish(p, Resp(400, sn.detail)) /\ UNCHANGED nextAes
        ELSE IF ~Has(uploads, name)
        THEN /\ finish(p, Resp(404, "Source file not found in uploads"))
             /\ UNCHANGED nextAes
        ELSE /\ loc' = [loc EXCEPT
                  ![p].safe_name = name,
                  ![p].aes_key = nextAes,
                  ![p].blob = Blob(iv_and_ciphertext(nextAes,
                                     aes_cbc_encrypt(nextAes, nextAes,
                                       pkcs7_pad(uploads[name].bytes))),
                                   uploads[name].by \cup {req[p].uid})]
             /\ nextAes' = nextAes + 1
             /\ goto(p, "ef_41")
             /\ UNCHANGED resp
  /\ UNCHANGED <<keyVars, docVars, dirVars, nreq>>

\* lines 253-260: the name, the document id, 404 without the document;
\* line 264: 404 without the source blob; encrypt_file.py 29-38: read it, draw
\* the AES key and the IV, pad and encrypt in memory.  A document is never
\* deleted, so one seen at line 259 is still there when the blob is read and
\* the two reads are one step.
enc_253(p) ==
  /\ pc[p] = "enc_253"
  /\ LET sn == sanitize_filename(req[p].filename)
         name == sn.name
     IN IF ~name_given(req[p].filename)
        THEN finish(p, Resp(400, "file_name is required")) /\ UNCHANGED nextAes
        ELSE IF ~sn.ok
        THEN finish(p, Resp(400, sn.detail)) /\ UNCHANGED nextAes
        ELSE IF ~Has(records, doc_id(req[p].uid, name))
        THEN /\ finish(p, Resp(404, "File metadata not found for user"))
             /\ UNCHANGED nextAes
        ELSE IF ~Has(uploads, name)
        THEN /\ finish(p, Resp(404, "Source file not found in uploads"))
             /\ UNCHANGED nextAes
        ELSE /\ loc' = [loc EXCEPT
                  ![p].safe_name = name,
                  ![p].aes_key = nextAes,
                  ![p].blob = Blob(iv_and_ciphertext(nextAes,
                                     aes_cbc_encrypt(nextAes, nextAes,
                                       pkcs7_pad(uploads[name].bytes))),
                                   uploads[name].by \cup {req[p].uid})]
             /\ nextAes' = nextAes + 1
             /\ goto(p, "ef_41")
             /\ UNCHANGED resp
  /\ UNCHANGED <<keyVars, docVars, dirVars, nreq>>

\* encrypt_file.py 41: output_path.write_bytes(iv + encrypted_data)
ef_41(p) ==
  /\ pc[p] = "ef_41"
  /\ encrypted' = Put(encrypted, enc_name(loc[p].safe_name), loc[p].blob)
  /\ goto(p, "ef_43")
  /\ loc' = [loc EXCEPT ![p].blob = None]
  /\ UNCHANGED <<keyVars, docVars, uploads, decrypted, nextAes, nreq, resp>>

\* encrypt_file.py 43-51: load the public key file and wrap the AES key
ef_43(p) ==
  /\ pc[p] = "ef_43"
  /\ IF ~exists(pubKey)
     THEN finish(p, Resp(500, "FileNotFoundError: public key"))
     ELSE IF ~load_pem_public_key(pubKey).ok
     THEN finish(p, Resp(500, "ValueError: could not deserialize key data"))
     ELSE /\ loc' = [loc EXCEPT
               ![p].encrypted_key = rsa_encrypt(loc[p].aes_key, pubKey),
               ![p].aes_key = 0]
          /\ goto(p, "ef_53")
          /\ UNCHANGED resp
  /\ UNCHANGED <<keyVars, storeVars, nreq>>

\* ef_53 that leaves a key blob that is already there.
ef_53_keeps_key_blob(p) ==
  /\ pc[p] = "ef_53"
  /\ encrypted' = IF Has(encrypted, key_name(loc[p].safe_name)) THEN encrypted
                  ELSE Put(encrypted, key_name(loc[p].safe_name),
                           Blob(loc[p].encrypted_key, {req[p].uid}))
  /\ goto(p, "enc_280")
  /\ loc' = [loc EXCEPT ![p].encrypted_key = None]
  /\ UNCHANGED <<keyVars, docVars, uploads, decrypted, nextAes, nreq, resp>>

\* encrypt_file.py 53: encrypted_key_path.write_bytes(encrypted_aes_key)
ef_53(p) ==
  /\ pc[p] = "ef_53"
  /\ encrypted' = Put(encrypted, key_name(loc[p].safe_name),
                      Blob(loc[p].encrypted_key, {req[p].uid}))
  /\ goto(p, "enc_280")
  /\ loc' = [loc EXCEPT ![p].encrypted_key = None]
  /\ UNCHANGED <<keyVars, docVars, uploads, decrypted, nextAes, nreq, resp>>

\* line 280: read the key blob back and base64 it
enc_280(p) ==
  /\ pc[p] = "enc_280"
  /\ loc' = [loc EXCEPT ![p].stored_aes_key =
               b64encode(encrypted[key_name(loc[p].safe_name)].bytes)]
  /\ goto(p, "enc_282")
  /\ UNCHANGED <<keyVars, storeVars, nreq, resp>>

\* lines 282-293: doc_ref.set({"aes_key": ...}, merge=True) and return
enc_282(p) ==
  /\ pc[p] = "enc_282"
  /\ records' = set_merge(records, doc_id(req[p].uid, loc[p].safe_name),
                          [aes_key |-> loc[p].stored_aes_key])
  /\ finish(p, Ok([encrypted_filename |-> enc_name(loc[p].safe_name),
                   encrypted_key_filename |-> key_name(loc[p].safe_name),
                   directory |-> "encrypted"]))
  /\ UNCHANGED <<keyVars, users, clock, dirVars, nextAes, nreq>>

(* ------------------------------------------------------------------ *)
(* decrypt_endpoint (routes/files.py 296-350, app.py 454-508)           *)
(* ------------------------------------------------------------------ *)
\* doc_payload.get("aes_key")
get_aes_key(doc) == IF "aes_key" \in DOMAIN doc THEN doc.aes_key ELSE None

\* lines 303-312: the name, the document id, 404 without the document;
\* line 315: 404 without the encrypted blob; lines 320-322: read the document
\* again for its aes_key.  Documents and blobs are never deleted, so what the
\* first two checks saw still holds when the document is read and the three
\* are one step.
dec_303(p) ==
  /\ pc[p] = "dec_303"
  /\ LET sn == sanitize_filename(req[p].filename)
     IN IF ~name_given(req[p].filename)
        THEN finish(p, Resp(400, "file_name is required"))
        ELSE IF ~sn.ok THEN finish(p, Resp(400, sn.detail))
        ELSE IF ~Has(records, doc_id(req[p].uid, sn.name))
        THEN finish(p, Resp(404, "File metadata not found for user"))
        ELSE IF ~Has(encrypted, enc_name(sn.name))
        THEN finish(p, Resp(404, "Encrypted file not found"))
        ELSE /\ goto(p, "dec_323")
             /\ loc' = [loc EXCEPT
                  ![p].safe_name = sn.name,
                  ![p].stored_aes_key =
                     get_aes_key(records[doc_id(req[p].uid, sn.name)])]
             /\ UNCHANGED resp
  /\ UNCHANGED <<keyVars, storeVars, nreq>>

\* line 323: is the key blob missing while the document has the key?  A key
\* blob that is there stays there, so for one that is, this check, the one
\* of line 329 and the read of decrypt_file.py 28 are one step.
dec_323(p) ==
  /\ pc[p] = "dec_323"
  /\ IF Has(encrypted, key_name(loc[p].safe_name))
     THEN /\ loc' = [loc EXCEPT
               ![p].encrypted_key = encrypted[key_name(loc[p].safe_name)].bytes,
               ![p].stored_aes_key = None]
          /\ goto(p, "df_29")
     ELSE /\ goto(p, IF loc[p].stored_aes_key # None THEN "dec_325"
                     ELSE "dec_329")
          /\ UNCHANGED loc
  /\ UNCHANGED <<keyVars, storeVars, nreq, resp>>

\* lines 324-327: restore the key blob from the document
dec_325(p) ==
  /\ pc[p] = "dec_325"
  /\ LET decoded == b64decode(loc[p].stored_aes_key)
     IN IF ~decoded.ok
        THEN /\ finish(p, Resp(500, "Stored AES key is invalid"))
             /\ UNCHANGED encrypted
        ELSE /\ encrypted' = Put(encrypted, key_name(loc[p].safe_name),
                                 Blob(decoded.bytes, {req[p].uid}))
             /\ goto(p, "dec_329")
             /\ UNCHANGED <<loc, resp>>
  /\ UNCHANGED <<keyVars, docVars, uploads, decrypted, nextAes, nreq>>

\* line 329: 404 without the key blob; decrypt_file.py 22-28: read it
dec_329(p) ==
  /\ pc[p] = "dec_329"
  /\ IF ~Has(encrypted, key_name(loc[p].safe_name))
     THEN finish(p, Resp(404, "Encrypted AES key not found"))
     ELSE /\ loc' = [loc EXCEPT
               ![p].encrypted_key = encrypted[key_name(loc[p].safe_name)].bytes,
               ![p].stored_aes_key = None]
          /\ goto(p, "df_29")
          /\ UNCHANGED resp
  /\ UNCHANGED <<keyVars, storeVars, nreq>>

\* decrypt_file.py 29-41: load the private key and unwrap the AES key; the
\* ValueError of a failed unwrap is not caught and is answered 500
df_29(p) ==
  /\ pc[p] = "df_29"
  /\ LET opened == rsa_decrypt(loc[p].encrypted_key, privKey)
     IN IF ~opened.ok
        THEN finish(p, Resp(500, "ValueError: decryption failed"))
        ELSE /\ loc' = [loc EXCEPT ![p].aes_key = opened.key,
                                   ![p].encrypted_key = None]
             /\ goto(p, "df_43")
             /\ UNCHANGED resp
  /\ UNCHANGED <<keyVars, storeVars, nreq>>

\* df_43 that stamps the record before the blob is decrypted.
df_43_marks_opened(p) ==
  /\ pc[p] = "df_43"
  /\ records' = set_merge(records, doc_id(req[p].uid, loc[p].safe_name),
                          [last_opemed_at |-> clock])
  /\ LET blob == encrypted[enc_name(loc[p].safe_name)]
     IN \E padded \in aes_cbc_decrypt(loc[p].aes_key, blob.bytes.iv,
                                      blob.bytes.ciphertext) :
        LET unpadded == pkcs7_unpad(padded)
        IN
        IF ~unpadded.ok
        THEN finish(p, Resp(500, "ValueError: invalid padding bytes"))
        ELSE /\ loc' = [loc EXCEPT
                  ![p].blob = Blob(unpadded.data, blob.by \cup {req[p].uid}),
                  ![p].aes_key = 0]
             /\ goto(p, "df_54")
             /\ UNCHANGED resp
  /\ UNCHANGED <<keyVars, users, clock, dirVars, nextAes, nreq>>

\* decrypt_file.py 43-51: read the blob, split off the IV, decrypt, unpad
df_43(p) ==
  /\ pc[p] = "df_43"
  /\ LET blob == encrypted[enc_name(loc[p].safe_name)]
     IN \E padded \in aes_cbc_decrypt(loc[p].aes_key, blob.bytes.iv,
                                      blob.bytes.ciphertext) :
        LET unpadded == pkcs7_unpad(padded)
        IN
        IF ~unpadded.ok
        THEN finish(p, Resp(500, "ValueError: invalid padding bytes"))
        ELSE /\ loc' = [loc EXCEPT
                  ![p].blob = Blob(unpadded.data, blob.by \cup {req[p].uid}),
                  ![p].aes_key = 0]
             /\ goto(p, "df_54")
             /\ UNCHANGED resp
  /\ UNCHANGED <<keyVars, storeVars, nreq>>

\* df_54 that appends to an output that is already there.
df_54_appends(p) ==
  /\ pc[p] = "df_54"
  /\ decrypted' =
       IF Has(decrypted, loc[p].safe_name)
       THEN Put(decrypted, loc[p].safe_name,
                Blob(decrypted[loc[p].safe_name].bytes \o loc[p].blob.bytes,
                     loc[p].blob.by))
       ELSE Put(decrypted, loc[p].safe_name, loc[p].blob)
  /\ goto(p, "dec_343")
  /\ loc' = [loc EXCEPT ![p].blob = None]
  /\ UNCHANGED <<keyVars, docVars, uploads, encrypted, nextAes, nreq, resp>>

\* decrypt_file.py 53-54: output_path.write_bytes(data)
df_54(p) ==
  /\ pc[p] = "df_54"
  /\ decrypted' = Put(decrypted, loc[p].safe_name, loc[p].blob)
  /\ goto(p, "dec_343")
  /\ loc' = [loc EXCEPT ![p].blob = None]
  /\ UNCHANGED <<keyVars, docVars, uploads, encrypted, nextAes, nreq, resp>>

\* lines 343-350: doc_ref.set({"last_opemed_at": SERVER_TIMESTAMP},
\* merge=True) and return
dec_343(p) ==
  /\ pc[p] = "dec_343"
  /\ records' = set_merge(records, doc_id(req[p].uid, loc[p].safe_name),
                          [last_opemed_at |-> clock])
  /\ clock' = clock + 1
  /\ finish(p, Ok([decrypted_filename |-> loc[p].safe_name,
                   directory |-> "decrypted"]))
  /\ UNCHANGED <<keyVars, users, dirVars, nextAes, nreq>>

(* ------------------------------------------------------------------ *)
(* download_file (routes/files.py 365-409, app.py 523-567)              *)
(* ------------------------------------------------------------------ *)
Categories == {"uploads", "encrypted", "decrypted"}

\* directories[category]
directory(category) ==
  CASE category = "uploads" -> uploads
    [] category = "encrypted" -> encrypted
    [] OTHER -> decrypted

\* lines 382-386: the name of the record a requested name belongs to
base_name(category, safe_name) ==
  IF category = "encrypted" /\ endswith(safe_name, DotEnc)
  THEN sanitize_filename(PathStem(safe_name))
  ELSE IF category = "decrypted"
  THEN sanitize_filename(PathName(safe_name))
  ELSE [ok |-> TRUE, name |-> safe_name, detail |-> ""]

\* doc.get("file_name") or doc.get("filename")
owned_name(doc) ==
  IF "file_name" \in DOMAIN doc THEN doc.file_name
  ELSE IF "filename" \in DOMAIN doc THEN doc.filename
  ELSE <<>>

\* lines 395-399: the stored name the record gives for a category; <<>>
\* stands for None
expected_name(category, owned) ==
  IF category = "encrypted"
  THEN (IF owned # <<>> THEN enc_name(owned) ELSE <<>>)
  ELSE owned

\* lines 377-409 without the comparison of lines 401-402.
download_response_no_name_check(r, recs, dir) ==
  LET sn == sanitize_filename(r.filename)
      bn == base_name(r.category, sn.name)
      dn == sanitize_filename(bn.name)
      id == doc_id(r.uid, dn.name)
  IN IF r.category \notin Categories THEN Resp(400, "Unknown category")
     ELSE IF ~sn.ok THEN Resp(400, sn.detail)
     ELSE IF ~bn.ok THEN Resp(400, bn.detail)
     ELSE IF ~dn.ok THEN Resp(400, dn.detail)
     ELSE IF ~Has(recs, id)
     THEN Resp(404, "File metadata not found for user")
     ELSE IF ~Has(dir, sn.name) THEN Resp(404, "File not found")
     ELSE Ok(dir[sn.name])

\* lines 377-409 with the blob check of line 406 moved in front of the
\* record lookup.
download_response_blob_first(r, recs, dir) ==
  LET sn == sanitize_filename(r.filename)
      bn == base_name(r.category, sn.name)
      dn == sanitize_filename(bn.name)
      id == doc_id(r.uid, dn.name)
  IN IF r.category \notin Categories THEN Resp(400, "Unknown category")
     ELSE IF ~sn.ok THEN Resp(400, sn.detail)
     ELSE IF ~bn.ok THEN Resp(400, bn.detail)
     ELSE IF ~dn.ok THEN Resp(400, dn.detail)
     ELSE IF ~Has(dir, sn.name) THEN Resp(404, "File not found")
     ELSE IF ~Has(recs, id)
     THEN Resp(404, "File metadata not found for user")
     ELSE IF expected_name(r.category, owned_name(recs[id])) # sn.name
     THEN Resp(403, "Access denied for requested file")
     ELSE Ok(dir[sn.name])

\* lines 377-402: category, names, the caller's record, the name check;
\* lines 404-409: 404 without the blob, else the blob is sent.  recs is the
\* file collection and dir the content of directories[category].
download_response(r, recs, dir) ==
  LET sn == sanitize_filename(r.filename)
      bn == base_name(r.category, sn.name)
      dn == sanitize_filename(bn.name)
      id == doc_id(r.uid, dn.name)
  IN IF r.category \notin Categories THEN Resp(400, "Unknown category")
     ELSE IF ~sn.ok THEN Resp(400, sn.detail)
     ELSE IF ~bn.ok THEN Resp(400, bn.detail)
     ELSE IF ~dn.ok THEN Resp(400, dn.detail)
     ELSE IF ~Has(recs, id)
     THEN Resp(404, "File metadata not found for user")
     ELSE IF expected_name(r.category, owned_name(recs[id])) # sn.name
     THEN Resp(403, "Access denied for requested file")
     ELSE IF ~Has(dir, sn.name) THEN Resp(404, "File not found")
     ELSE Ok(dir[sn.name])

\* download_file as one step.  A document is never deleted and its file_name
\* never changes, so the record check still holds when the blob is read.
dl_377(p) ==
  /\ pc[p] = "dl_377"
  /\ finish(p, download_response(req[p], records, directory(req[p].category)))
  /\ UNCHANGED <<keyVars, storeVars, nreq>>

(* ------------------------------------------------------------------ *)
(* Requests                                                             *)
(* ------------------------------------------------------------------ *)
\* requests the model starts in all
MaxReqs == 3

A == <<"A">>
B == <<"B">>
Uids == {A, B}
NameA == <<"a">>
\* a name with a directory part that sanitizes to NameA
NameTraversal == <<".", ".", "/", "a">>
UploadNames == {NameA, NameTraversal}
\* what each user uploads
UploadData(uid) == IF uid = A THEN <<1>> ELSE <<2, 2>>
CryptNames == {NameA}
DownloadTargets ==
  { <<"uploads", NameA>>, <<"encrypted", enc_name(NameA)>>,
    <<"decrypted", NameA>>, <<"encrypted", NameA>> }

OkMeta == [isdict |-> TRUE, key |-> <<>>, tag_id |-> Str(<<"t">>),
           expiry_time |-> Str(<<"e">>)]
NoTagMeta == [OkMeta EXCEPT !.tag_id = None]
ListOf(items) == [kind |-> "list", items |-> items]
File(filename, data) == [filename |-> filename, data |-> data]
\* the batches the model sends: their files and their metadata
Batches(data) ==
  { [files |-> <<File(NameA, data)>>, metadata |-> ListOf(<<OkMeta>>)],
    [files |-> <<File(NameA, data)>>, metadata |-> ListOf(<<NoTagMeta>>)] }

\* a request with a valid token arrives
arrive(p) ==
  /\ nreq < MaxReqs
  /\ \E uid \in Uids : begin(p, "valid", uid)

\* a request without a valid token arrives
arrive_bad_token(p) ==
  /\ nreq < MaxReqs
  /\ \E token \in {"missing", "invalid"} : begin(p, token, <<>>)

start_upload(p) ==
  /\ pc[p] = "handler"
  /\ \E filename \in UploadNames :
       dispatch(p, [req[p] EXCEPT !.op = "upload", !.filename = filename,
                                  !.data = UploadData(req[p].uid)])

start_batch(p) ==
  /\ pc[p] = "handler"
  /\ \E b \in Batches(UploadData(req[p].uid)) :
       dispatch(p, [req[p] EXCEPT !.op = "batch", !.files = b.files,
                                  !.metadata = b.metadata])

start_encrypt(p) ==
  /\ pc[p] = "handler"
  /\ \E filename \in CryptNames :
       dispatch(p, [req[p] EXCEPT !.op = "encrypt", !.filename = filename])

start_decrypt(p) ==
  /\ pc[p] = "handler"
  /\ \E filename \in CryptNames :
       dispatch(p, [req[p] EXCEPT !.op = "decrypt", !.filename = filename])

start_download(p) ==
  /\ pc[p] = "handler"
  /\ \E target \in DownloadTargets :
       dispatch(p, [req[p] EXCEPT !.op = "download", !.category = target[1],
                                  !.filename = target[2]])

(* ------------------------------------------------------------------ *)
(* SpecKeys: the key store under concurrent callers of ensure_rsa_keys  *)
(* ------------------------------------------------------------------ *)
\* The key directory as the process can find it at start: empty, only the
\* private key, only the public key, or a keypair.
KeyStoresAtStart ==
  { <<NoFile, NoFile>>,
    <<PrivatePem(0), NoFile>>,
    <<NoFile, public_key(PrivatePem(0))>>,
    <<PrivatePem(0), public_key(PrivatePem(0))>> }

InitWorkers ==
  /\ pc = [p \in Workers |-> "idle"]
  /\ req = [p \in Workers |-> NoReq]
  /\ loc = [p \in Workers |-> LocInit]
  /\ resp = [p \in Workers |-> NoResp]

\* A fresh deployment: no profile, no file record, empty blob directories
\* (core/paths.py creates the three directories).
InitStore ==
  /\ users = Empty
  /\ records = Empty
  /\ uploads = Empty
  /\ encrypted = Empty
  /\ decrypted = Empty
  /\ nextAes = 1
  /\ clock = 1

InitKeys ==
  /\ \E ks \in KeyStoresAtStart : privKey = ks[1] /\ pubKey = ks[2]
  /\ nextRsa = 1
  /\ nreq = 0
  /\ InitWorkers
  /\ InitStore

NextKeys ==
  \E p \in KeyCallers :
    \/ call_ensure_rsa_keys(p)
    \/ ek_26(p) \/ ek_28(p) \/ ek_38(p)
    \/ ek_41(p) \/ ek_63(p) \/ ek_64(p)

SpecKeys == InitKeys /\ [][NextKeys]_vars

(* ------------------------------------------------------------------ *)
(* Spec: the service under concurrent requests                          *)
(* ------------------------------------------------------------------ *)
\* A deployment in use whose encrypted directory has lost a key blob, the
\* case lines 323-327 of decrypt_endpoint restore: user A has uploaded NameA
\* in a batch and encrypted it under keypair 0, and NameA.key is gone.
InitKeyBlobLost ==
  LET public_pem == public_key(PrivatePem(0))
      plain == Blob(UploadData(A), {A})
  IN /\ users = Put(Empty, A, profile(A, public_pem, FALSE))
     /\ records = Put(Empty, doc_id(A, NameA),
                      [batch_doc(A, NameA, Len(plain.bytes), 1, OkMeta)
                         EXCEPT !.aes_key = b64encode(rsa_encrypt(0, public_pem))])
     /\ uploads = Put(Empty, NameA, plain)
     /\ encrypted = Put(Empty, enc_name(NameA),
                        Blob(iv_and_ciphertext(0,
                               aes_cbc_encrypt(0, 0, pkcs7_pad(plain.bytes))),
                             {A}))
     /\ decrypted = Empty
     /\ nextAes = 1
     /\ clock = 2

\* nreq counts the requests of a run against MaxReqs.  A run from a fresh
\* deployment with its keypair in place has all of them; a run that first has
\* to make or repair the key files (SpecKeys follows those in full), or that
\* starts from the deployment in use, with or without its private key file,
\* starts with one counted.
Init ==
  /\ nextRsa = 1
  /\ InitWorkers
  /\ \E ks \in KeyStoresAtStart :
       /\ privKey = ks[1] /\ pubKey = ks[2]
       /\ \/ InitStore /\ nreq = (IF exists(ks[1]) /\ exists(ks[2]) THEN 0 ELSE 1)
          \/ exists(ks[2]) /\ InitKeyBlobLost /\ nreq = 1

Next ==
  \E p \in Procs :
    \/ arrive(p) \/ arrive_bad_token(p) \/ start_upload(p) \/ start_batch(p)
    \/ start_encrypt(p) \/ start_decrypt(p) \/ start_download(p)
    \/ ek_26(p) \/ ek_28(p) \/ ek_38(p)
    \/ ek_41(p) \/ ek_63(p) \/ ek_64(p)
    \/ sync_55(p) \/ sync_71(p) \/ auth_me(p)
    \/ up_101(p) \/ up_107(p) \/ up_108(p) \/ up_114(p)
    \/ bt_157(p) \/ bt_187(p) \/ bt_213(p) \/ bt_214(p) \/ bt_220(p) \/ bt_232(p)
    \/ enc_253(p) \/ ef_41(p) \/ ef_43(p) \/ ef_53(p)
    \/ enc_280(p) \/ enc_282(p)
    \/ dec_303(p) \/ dec_323(p) \/ dec_325(p)
    \/ dec_329(p) \/ df_29(p) \/ df_43(p) \/ df_54(p) \/ dec_343(p)
    \/ dl_377(p)

Spec == Init /\ [][Next]_vars

(* ================================================================== *)
(* Claims                                                               *)
(* ================================================================== *)
EkLabels == {"ek_26", "ek_28", "ek_38", "ek_41", "ek_63", "ek_64"}

\* The public PEM is the public half of the keypair of the private PEM.
Matches(public_pem, private_pem) ==
  /\ public_pem.kind = "public"
  /\ private_pem.kind = "private"
  /\ public_pem.id = private_pem.id

KeysConsistent == exists(privKey) /\ exists(pubKey) /\ Matches(pubKey, privKey)

OnlyPublic == exists(pubKey) /\ ~exists(privKey)

\* In this step worker p's ensure_rsa_keys returns without raising.
ek_returns(p) ==
  /\ pc[p] \in {"ek_26", "ek_38", "ek_64"}
  /\ pc'[p] \notin EkLabels

\* In this step worker p's ensure_rsa_keys ends, by return or by raise.
ek_ends(p) == pc[p] \in EkLabels /\ pc'[p] \notin EkLabels

Quiescent == \A p \in Workers : pc[p] = "idle"

\* C6: whenever ensure_rsa_keys returns without error, both key files exist
\* and the public key is the one derived from the private key.
Claim_C6 ==
  [][\A p \in Workers : ek_returns(p) => KeysConsistent']_vars

\* C7: callers racing from the empty key store persist exactly one keypair:
\* once all of them are done, one keypair has been generated and the public
\* key on disk matches the private key on disk.
Claim_C7 ==
  (Quiescent /\ nextRsa > 1) => (nextRsa = 2 /\ KeysConsistent)

\* C8: while only the public key exists, no step changes a key file or
\* generates a keypair, and every ensure_rsa_keys that ends, ends in HTTP 500.
Thm_C8 ==
  [][OnlyPublic =>
       /\ privKey' = privKey /\ pubKey' = pubKey /\ nextRsa' = nextRsa
       /\ \A p \in Workers :
            ek_ends(p) => (pc'[p] = "idle" /\ resp'[p].status = 500)]_vars

Witness_C8 ==
  /\ OnlyPublic
  /\ \E p \in Workers :
       resp[p] = Resp(500, "Missing private key at PRIVATE_KEY_PATH. Cannot decrypt without it.")

\* C9: the repair branch writes the public key of the private key it loaded,
\* generates nothing and leaves the private key file alone; while that
\* private key is still the one on disk, an AES key wrapped under the written
\* public key unwraps under it.
Thm_C9 ==
  [][\A p \in Workers :
       (pc[p] = "ek_38" /\ pc'[p] # "ek_38") =>
         /\ privKey' = privKey
         /\ nextRsa' = nextRsa
         /\ loc[p].private_key.kind = "private"
         /\ loc[p].private_key.id < nextRsa
         /\ Matches(pubKey', loc[p].private_key)
         /\ (privKey = loc[p].private_key =>
               \A k \in 1..2 :
                 rsa_decrypt(rsa_encrypt(k, pubKey'), privKey')
                   = [ok |-> TRUE, key |-> k])]_vars

Witness_C9 ==
  /\ \E p \in Workers : resp[p] = Resp(200, "derived public key")
  /\ privKey = PrivatePem(0)
  /\ nextRsa = 1
  /\ Matches(pubKey, privKey)
  /\ rsa_decrypt(rsa_encrypt(1, pubKey), privKey) = [ok |-> TRUE, key |-> 1]

\* C10: once a private key is on disk no step deletes or changes it, and the
\* only change to key material is writing a missing public key, derived from
\* the private key.
Claim_C10 ==
  [][exists(privKey) =>
       /\ privKey' = privKey
       /\ (pubKey' # pubKey =>
             (~exists(pubKey) /\ Matches(pubKey', privKey)))]_vars

(* ------------------------------------------------------------------ *)
(* Ownership and uploads                                                *)
(* ------------------------------------------------------------------ *)
\* The response carries a blob: download_file answered with a file.
SentBlob(r) == r.status = 200 /\ "by" \in DOMAIN r.body

\* The response reports the upload of name as stored: upload_file's body
\* names it, or upload_files_multiple's list of stored files holds it.
StoredAs(r, name) ==
  /\ r.status = 200
  /\ \/ /\ "files" \in DOMAIN r.body
        /\ \E i \in 1..Len(r.body.files) : r.body.files[i] = name
     \/ /\ "size" \in DOMAIN r.body
        /\ r.body.file_name = name

\* The response rejects an upload because the name is taken.
NameCollision(r) == r.status = 409

\* C1: a download answered with a blob gives the caller only bytes that come
\* from the caller's own requests.
Claim_C1 ==
  \A p \in Procs : SentBlob(resp[p]) => resp[p].body.by \subseteq {resp[p].to}

\* C2: a user whose own upload of NameA has been answered, and who asks for
\* the encrypted blob of NameA that the requests of another user made, is
\* answered 403.
Claim_C2 ==
  [][\A p \in Procs :
       ( /\ pc[p] = "dl_377" /\ pc'[p] # "dl_377"
         /\ req[p].category = "encrypted"
         /\ req[p].filename = enc_name(NameA)
         /\ Has(encrypted, enc_name(NameA))
         /\ req[p].uid \notin encrypted[enc_name(NameA)].by
         /\ \E q \in Procs :
              /\ resp[q].to = req[p].uid
              /\ StoredAs(resp[q], NameA) \/ NameCollision(resp[q]) )
       => resp'[p].status = 403]_vars

\* C3: no two uploads of one name are both answered as stored.
Claim_C3 ==
  \A p, q \in Procs :
    (p # q /\ StoredAs(resp[p], NameA)) => ~StoredAs(resp[q], NameA)

\* The upload worker p is about to look at: the sanitized name of the single
\* file, or of the batch's file at the worker's position.
upload_target(p) ==
  IF pc[p] = "up_101"
  THEN sanitize_filename(or_default(req[p].filename))
  ELSE LET i == IF pc[p] = "bt_157" THEN 1 ELSE loc[p].index
       IN IF i <= Len(req[p].files)
          THEN sanitize_filename(or_default(req[p].files[i].filename))
          ELSE [ok |-> FALSE, name |-> <<>>, detail |-> ""]

Claim_C5 ==
  [][\A p \in Procs :
       (pc[p] = "up_114" /\ pc'[p] # "up_114") =>
         LET id == doc_id(req[p].uid, loc[p].safe_name)
         IN /\ resp'[p].status = 200
            /\ Has(records', id)
            /\ records'[id].file_name = loc[p].safe_name
            /\ records'[id].size = Len(uploads[loc[p].safe_name].bytes)
            /\ records'[id].uid = req[p].uid
            /\ records'[id].aes_key = None]_vars

(***************************************************************************)
(* Calls of ensure_rsa_keys in a row                                       *)
(*                                                                         *)
(* One caller calls ensure_rsa_keys again and again, each call after the   *)
(* one before it has ended.  The k-th call runs in worker slot k, so the   *)
(* outcome of every earlier call stays readable in resp.  The key store at *)
(* the start is any pair of files a deployment can hold: each file absent  *)
(* or the PEM of one of the keypairs 0..MaxKeyId, matching or not.         *)
(***************************************************************************)
MaxKeyId == 2

KeyStoresAny ==
  ({NoFile} \cup {PrivatePem(k) : k \in 0..MaxKeyId})
    \X ({NoFile} \cup {public_key(PrivatePem(k)) : k \in 0..MaxKeyId})

\* The k-th call: the (k-1)-th has ended and this one has not been made.
call_in_a_row(p) ==
  /\ resp[p].status = 0
  /\ p = 1 \/ (p > 1 /\ pc[p - 1] = "idle" /\ resp[p - 1].status # 0)
  /\ call_ensure_rsa_keys(p)

InitKeysInARow ==
  /\ \E ks \in KeyStoresAny : privKey = ks[1] /\ pubKey = ks[2]
  /\ nextRsa = MaxKeyId + 1
  /\ nreq = 0
  /\ InitWorkers
  /\ InitStore

NextKeysInARow ==
  \E p \in KeyCallers :
    \/ call_in_a_row(p)
    \/ ek_26(p) \/ ek_28(p) \/ ek_38(p)
    \/ ek_41(p) \/ ek_63(p) \/ ek_64(p)

SpecKeysInARow == InitKeysInARow /\ [][NextKeysInARow]_vars

\* The outcome of a call: its status, and for a failure its message.
Outcome(r) == <<r.status, IF r.status = 200 THEN "" ELSE r.detail>>

\* C11: ensure_rsa_keys is idempotent.  Every step of a call made after an
\* earlier call has ended leaves both key files as that earlier call left
\* them, and the call ends with the outcome of the first call (success, or
\* the same failure); and no step taken while both key files exist writes a
\* key file.
Thm_C11 ==
  [][ /\ \A p \in KeyCallers \ {1} :
           pc[p] \in EkLabels =>
             /\ privKey' = privKey /\ pubKey' = pubKey
             /\ ek_ends(p) => Outcome(resp'[p]) = Outcome(resp[1])
      /\ (exists(privKey) /\ exists(pubKey)) =>
           (privKey' = privKey /\ pubKey' = pubKey) ]_vars

\* The first call generated a keypair on an empty store and the second call
\* has returned after finding both files.
Witness_C11 ==
  /\ resp[1].status = 200 /\ resp[1].detail = "generated keypair"
  /\ resp[2].status = 200 /\ resp[2].detail = "both keys exist"
  /\ KeysConsistent

(***************************************************************************)
(* encrypt_file followed by decrypt_file                                   *)
(*                                                                         *)
(* One client at a time works on one uploaded file whose bytes are drawn   *)
(* from PlainTexts: every length from empty to more than one cipher block, *)
(* with bytes that look like PKCS7 padding among them.  The key files are  *)
(* a matching keypair.                                                     *)
(***************************************************************************)
MaxPlainLen == 17

ByteSamples == {0, 1, 16}

PlainTexts ==
  { [i \in 1..n |-> IF i = n THEN last ELSE fill] :
      n \in 0..MaxPlainLen, fill \in ByteSamples, last \in ByteSamples }

InitRoundTrip ==
  LET private_pem == PrivatePem(0)
  IN /\ privKey = private_pem /\ pubKey = public_key(private_pem)
     /\ nextRsa = 1
     /\ nreq = 0
     /\ InitWorkers
     /\ users = Empty
     /\ \E plain \in PlainTexts :
          /\ uploads = Put(Empty, NameA, Blob(plain, {A}))
          /\ records = Put(Empty, doc_id(A, NameA),
                           batch_doc(A, NameA, Len(plain), 1, OkMeta))
     /\ encrypted = Empty
     /\ decrypted = Empty
     /\ nextAes = 1
     /\ clock = 2

NextRoundTrip ==
  \E p \in {1} :
    \/ arrive(p) \/ ek_26(p) \/ sync_55(p) \/ sync_71(p)
    \/ start_encrypt(p) \/ start_decrypt(p)
    \/ enc_253(p) \/ ef_41(p) \/ ef_43(p) \/ ef_53(p) \/ enc_280(p) \/ enc_282(p)
    \/ dec_303(p) \/ dec_323(p) \/ df_29(p) \/ df_43(p) \/ df_54(p) \/ dec_343(p)

SpecRoundTrip == InitRoundTrip /\ [][NextRoundTrip]_vars

\* C12: round trip.  Whatever decrypt_file has written for a file is exactly
\* the plaintext encrypt_file was given, and with a matching keypair no
\* encrypt or decrypt request ends in a cryptographic failure.
Thm_C12 ==
  /\ Has(decrypted, NameA) => decrypted[NameA].bytes = uploads[NameA].bytes
  /\ \A p \in Workers : resp[p].status # 500

\* A plaintext longer than one cipher block has gone through encrypt_file
\* and decrypt_file.
Witness_C12 ==
  /\ Has(decrypted, NameA)
  /\ Len(uploads[NameA].bytes) > BlockSize

(***************************************************************************)
(* encrypt_file and decrypt_file with a public key file that may not load  *)
(*                                                                         *)
(* ensure_rsa_keys looks only at whether the key files exist.  Here the    *)
(* file at PUBLIC_KEY_PATH is either the PEM of the keypair or a file that *)
(* is there but does not deserialize.                                      *)
(***************************************************************************)
PublicKeyFiles == {public_key(PrivatePem(0)), DamagedPem}

InitPublicKeyFile ==
  /\ privKey = PrivatePem(0)
  /\ pubKey \in PublicKeyFiles
  /\ nextRsa = 1
  /\ nreq = 0
  /\ InitWorkers
  /\ users = Empty
  /\ \E plain \in {<<>>, UploadData(A)} :
       /\ uploads = Put(Empty, NameA, Blob(plain, {A}))
       /\ records = Put(Empty, doc_id(A, NameA),
                        batch_doc(A, NameA, Len(plain), 1, OkMeta))
  /\ encrypted = Empty
  /\ decrypted = Empty
  /\ nextAes = 1
  /\ clock = 2

NextPublicKeyFile ==
  \E p \in {1} :
    \/ arrive(p) \/ ek_26(p) \/ sync_55(p) \/ sync_71(p)
    \/ start_encrypt(p) \/ start_decrypt(p)
    \/ enc_253(p) \/ ef_41(p) \/ ef_43(p) \/ ef_53(p) \/ enc_280(p) \/ enc_282(p)
    \/ dec_303(p) \/ dec_323(p) \/ dec_329(p)
    \/ df_29(p) \/ df_43(p) \/ df_54(p) \/ dec_343(p)

SpecPublicKeyFile == InitPublicKeyFile /\ [][NextPublicKeyFile]_vars

\* C13: a cryptographic failure leaves no partially written artifact.  Once
\* encrypt_file has written the ciphertext blob (encrypt_file.py 41) or the
\* key blob (53), and once decrypt_file has written its output
\* (decrypt_file.py 54), the request does not end in a failure; and the step
\* in which an encrypt or decrypt request fails writes no blob.
Claim_C13 ==
  [][ \A p \in Procs :
        /\ pc[p] \in {"ef_43", "ef_53", "enc_280", "enc_282", "dec_343"} =>
             resp'[p].status \notin {400, 404, 500}
        /\ (pc[p] \in {"enc_253", "ef_41", "ef_43", "ef_53", "dec_303",
                       "dec_323", "dec_325", "dec_329", "df_29", "df_43",
                       "df_54"}
              /\ resp'[p].status \in {400, 404, 500})
             => (encrypted' = encrypted /\ decrypted' = decrypted) ]_vars

(***************************************************************************)
(* Downloads                                                               *)
(***************************************************************************)
\* AccessDenied or RecordNotFound
Denied(r) ==
  \/ r.status = 403
  \/ r.status = 404 /\ r.detail = "File metadata not found for user"

\* Other contents of a blob directory: nothing, the requested name alone,
\* the requested name among the blobs there, and the blobs there without it.
OtherDirectories(dir, filename) ==
  LET name == sanitize_filename(filename).name
      others == [n \in (DOMAIN dir) \ {name} |-> dir[n]]
  IN { Empty, others, Put(Empty, name, Blob(<<9>>, {B})),
       Put(dir, name, Blob(<<9>>, {A})) }

\* C14: an unauthorized download is answered without looking at the blobs.
\* For every download about to be handled and every other content of the
\* blob directory, if the request ends in AccessDenied or RecordNotFound with
\* one content it ends in the same result with the other.
Thm_C14 ==
  \A p \in Procs :
    pc[p] = "dl_377" =>
      LET here == download_response(req[p], records,
                                    directory(req[p].category))
      IN \A dir \in OtherDirectories(directory(req[p].category),
                                     req[p].filename) :
           LET there == download_response(req[p], records, dir)
           IN (Denied(here) \/ Denied(there)) => here = there

\* B asks for the uploaded blob of a name that B has no record of, while
\* the blob is on disk.
Witness_C14 ==
  \E p \in Procs :
    /\ pc[p] = "dl_377"
    /\ req[p].uid = B /\ req[p].category = "uploads"
    /\ Has(uploads, NameA)
    /\ ~Has(records, doc_id(B, NameA))
    /\ req[p].filename = NameA

(***************************************************************************)
(* Lifecycle transitions and the record of the caller                      *)
(***************************************************************************)
\* Worker p is about to look up the record for an encrypt or decrypt request
\* with a usable name, and the caller has no record under that name.
NoOwnedRecord(p) ==
  /\ pc[p] \in {"enc_253", "dec_303"}
  /\ name_given(req[p].filename)
  /\ sanitize_filename(req[p].filename).ok
  /\ ~Has(records, doc_id(req[p].uid, sanitize_filename(req[p].filename).name))

\* The blob directories and the file records stay as they are.
NothingStored == UNCHANGED <<uploads, encrypted, decrypted, records>>

\* C15: an encrypt or decrypt request for a name the caller has no record of
\* ends 404 "File metadata not found for user", and no step of an encrypt or
\* decrypt request before its record lookup (the key check included) writes
\* a blob or a file record.
Thm_C15 ==
  [][ \A p \in Procs :
        /\ (NoOwnedRecord(p) /\ pc'[p] # pc[p]) =>
             /\ resp'[p].status = 404
             /\ resp'[p].detail = "File metadata not found for user"
             /\ NothingStored
        /\ (req[p].op \in {"encrypt", "decrypt"} /\ pc[p] \in EkLabels
              /\ pc'[p] # pc[p])
             => NothingStored ]_vars

\* B's encrypt request was answered 404 while A's blobs of that name are in
\* the upload and encrypted directories and B has no record.
Witness_C15 ==
  \E p \in Procs :
    /\ resp[p].op = "encrypt" /\ resp[p].to = B /\ resp[p].status = 404
    /\ Has(uploads, NameA) /\ Has(encrypted, enc_name(NameA))
    /\ ~Has(records, doc_id(B, NameA))

(***************************************************************************)
(* The wrapped key of a decrypt request                                    *)
(***************************************************************************)
\* Worker p takes a step of the key lookup of decrypt_endpoint (lines
\* 323-329).
key_lookup_step(p) ==
  /\ pc[p] \in {"dec_323", "dec_325", "dec_329"}
  /\ pc'[p] # pc[p]

\* C16: the wrapped key comes from the key blob on disk if there is one,
\* else from the record.  A step of the lookup taken while the key blob is
\* on disk leaves it as it is, and the key the request goes on with is the
\* one on disk; the blob is written from the record's aes_key field only
\* while there is none on disk, and then with the decoded field; and with no
\* key blob on disk at line 329 the request ends 404 "Encrypted AES key not
\* found" and writes no decrypted output.
Claim_C16 ==
  [][ \A p \in Procs :
        key_lookup_step(p) =>
          LET k == key_name(loc[p].safe_name)
          IN /\ Has(encrypted, k) =>
                  /\ encrypted' = encrypted
                  /\ pc'[p] = "df_29" =>
                       loc'[p].encrypted_key = encrypted[k].bytes
             /\ (~Has(encrypted, k) /\ pc[p] = "dec_325"
                   /\ b64decode(loc[p].stored_aes_key).ok) =>
                  /\ encrypted' = Put(encrypted, k,
                       Blob(b64decode(loc[p].stored_aes_key).bytes,
                            {req[p].uid}))
                  /\ pc'[p] = "dec_329"
             /\ (~Has(encrypted, k) /\ pc[p] = "dec_329") =>
                  /\ resp'[p].status = 404
                  /\ resp'[p].detail = "Encrypted AES key not found"
                  /\ decrypted' = decrypted ]_vars

(***************************************************************************)
(* Record fields written by encrypt and decrypt                            *)
(***************************************************************************)
\* doc.get(field), None for a document without it
field(recs, id, name) ==
  IF Has(recs, id) /\ name \in DOMAIN recs[id] THEN recs[id][name] ELSE None

\* Worker p's request is an encrypt or decrypt request and p takes a step.
crypt_step(p) ==
  /\ req[p].op \in {"encrypt", "decrypt"}
  /\ pc'[p] # pc[p]

\* C17: the aes_key field of a record changes only in the last step of an
\* encrypt request, which answers 200 and comes after both blobs were
\* written; last_opemed_at changes only in the last step of a decrypt
\* request, which answers 200 and comes after the output was written; and a
\* step of an encrypt or decrypt request that changes any record is one of
\* these two, so a request that fails has changed none.
Thm_C17 ==
  [][ /\ \A id \in DOMAIN records' :
           /\ field(records', id, "aes_key") # field(records, id, "aes_key")
                /\ field(records', id, "aes_key") # None
                => \E p \in Procs :
                     /\ pc[p] = "enc_282" /\ resp'[p].status = 200
                     /\ id = doc_id(req[p].uid, loc[p].safe_name)
                     /\ Has(encrypted, enc_name(loc[p].safe_name))
                     /\ Has(encrypted, key_name(loc[p].safe_name))
           /\ (Has(records, id)
                /\ field(records', id, "last_opemed_at")
                     # field(records, id, "last_opemed_at"))
                => \E p \in Procs :
                     /\ pc[p] = "dec_343" /\ resp'[p].status = 200
                     /\ id = doc_id(req[p].uid, loc[p].safe_name)
                     /\ Has(decrypted, loc[p].safe_name)
      /\ \A p \in Procs :
           (crypt_step(p) /\ records' # records) =>
             /\ pc[p] \in {"enc_282", "dec_343"}
             /\ resp'[p].status = 200 ]_vars

\* An encrypt request has failed after A's record got its wrapped key, and
\* the record still has it.
Witness_C17 ==
  \E p \in Procs :
    /\ resp[p].op \in {"encrypt", "decrypt"}
    /\ resp[p].status \notin {0, 200}
    /\ resp[p].to = A
    /\ field(records, doc_id(A, NameA), "aes_key") # None

(***************************************************************************)
(* sanitize_filename on its own                                            *)
(*                                                                         *)
(* A caller hands a name to sanitize_filename and hands the result to it   *)
(* again, as decrypt_endpoint does (line 307, then _file_doc_ref line 48). *)
(* The names are all strings of up to MaxNameLen characters over a safe    *)
(* character, the dot, the separator and a character outside the class.    *)
(***************************************************************************)
MaxNameLen == 4

SanitizeCalls == 2

NameChars == {"a", ".", "/", " "}

Filenames == UNION {[1..n -> NameChars] : n \in 0..MaxNameLen}

\* req[p].filename is the name first given, loc[p].index the number of calls
\* that have returned and loc[p].safe_name what the last of them returned.
sanitize_argument(p) ==
  IF loc[p].index = 0 THEN req[p].filename ELSE loc[p].safe_name

sanitize_call(p) ==
  /\ pc[p] = "sanitize"
  /\ loc[p].index < SanitizeCalls
  /\ LET sn == sanitize_filename(sanitize_argument(p))
     IN IF ~sn.ok
        THEN finish(p, Resp(400, sn.detail))
        ELSE /\ loc' = [loc EXCEPT ![p].safe_name = sn.name,
                                   ![p].index = loc[p].index + 1]
             /\ UNCHANGED <<pc, req, resp>>
  /\ UNCHANGED <<keyVars, storeVars, nreq>>

InitSanitize ==
  /\ privKey = PrivatePem(0) /\ pubKey = public_key(PrivatePem(0))
  /\ nextRsa = 1
  /\ nreq = 0
  /\ InitStore
  /\ pc = [p \in Workers |-> IF p = 1 THEN "sanitize" ELSE "idle"]
  /\ \E filename \in Filenames :
       req = [p \in Workers |->
                IF p = 1 THEN [NoReq EXCEPT !.filename = filename] ELSE NoReq]
  /\ loc = [p \in Workers |-> LocInit]
  /\ resp = [p \in Workers |-> NoResp]

NextSanitize == \E p \in {1} : sanitize_call(p)

SpecSanitize == InitSanitize /\ [][NextSanitize]_vars

\* C18: sanitization is idempotent.  A call of sanitize_filename on a name
\* that an earlier call returned does not raise and returns that name.
Thm_C18 ==
  [][ \A p \in {1} :
        (pc[p] = "sanitize" /\ loc[p].index >= 1 /\ loc[p].index < SanitizeCalls)
          => /\ pc'[p] = "sanitize"
             /\ loc'[p].index = loc[p].index + 1
             /\ loc'[p].safe_name = loc[p].safe_name ]_vars

\* sanitize_filename has been applied twice to a name that the first call
\* changed.
Witness_C18 ==
  /\ loc[1].index = 2
  /\ loc[1].safe_name # req[1].filename
  /\ Len(req[1].filename) = MaxNameLen

\* C19: sanitization strips directory traversal.  A name sanitize_filename
\* returns holds no path separator and is neither "." nor "..".
Claim_C19 ==
  loc[1].index >= 1 =>
    /\ \A i \in 1..Len(loc[1].safe_name) : loc[1].safe_name[i] # "/"
    /\ loc[1].safe_name # <<".">>
    /\ loc[1].safe_name # <<".", ".">>

(***************************************************************************)
(* _file_doc_ref on its own                                                *)
(*                                                                         *)
(* Two callers each take a uid and a file name, build the document         *)
(* reference as _file_doc_ref does and write their record under it.  The   *)
(* uids and names include ones with the ":" that joins the two parts of    *)
(* the document id.                                                        *)
(***************************************************************************)
UidSamples == { <<"A">>, <<"B">>, <<"A", ":">>, <<"A", ":", "a">> }

DocNames == { <<"a">>, <<":", "a">>, <<"a", ":", "a">>, <<"_", "a">> }

\* lines 47-50: _file_doc_ref(uid, filename)
fd_48(p) ==
  /\ pc[p] = "fd_48"
  /\ LET sn == sanitize_filename(req[p].filename)
     IN IF ~sn.ok
        THEN finish(p, Resp(400, sn.detail))
        ELSE /\ loc' = [loc EXCEPT ![p].safe_name = sn.name]
             /\ goto(p, "fd_set")
             /\ UNCHANGED resp
  /\ UNCHANGED <<keyVars, storeVars, nreq>>

\* doc_ref.set(record, merge=True) on the reference _file_doc_ref returned
fd_set(p) ==
  /\ pc[p] = "fd_set"
  /\ records' = set_merge(records, doc_id(req[p].uid, loc[p].safe_name),
                          [uid |-> req[p].uid, file_name |-> loc[p].safe_name])
  /\ finish(p, Ok([filename |-> loc[p].safe_name]))
  /\ UNCHANGED <<keyVars, users, clock, dirVars, nextAes, nreq>>

InitDocRef ==
  /\ privKey = PrivatePem(0) /\ pubKey = public_key(PrivatePem(0))
  /\ nextRsa = 1
  /\ nreq = 0
  /\ InitStore
  /\ pc = [p \in Workers |-> IF p \in {1, 2} THEN "fd_48" ELSE "idle"]
  /\ \E u1 \in UidSamples, u2 \in UidSamples, n1 \in DocNames, n2 \in DocNames :
       req = [p \in Workers |->
                IF p = 1 THEN [NoReq EXCEPT !.uid = u1, !.filename = n1]
                ELSE IF p = 2 THEN [NoReq EXCEPT !.uid = u2, !.filename = n2]
                ELSE NoReq]
  /\ loc = [p \in Workers |-> LocInit]
  /\ resp = [p \in Workers |-> NoResp]

NextDocRef == \E p \in {1, 2} : fd_48(p) \/ fd_set(p)

SpecDocRef == InitDocRef /\ [][NextDocRef]_vars

\* Worker p holds a document reference and is about to write through it.
HoldsRef(p) == pc[p] = "fd_set"

\* C20: document ids keep owners apart.  Two document references built for
\* different (owner, sanitized name) pairs have different ids, and a write
\* through a reference changes no record of another owner or another name.
Thm_C20 ==
  [][ /\ \A p \in {1, 2}, q \in {1, 2} :
           (HoldsRef(p) /\ HoldsRef(q)
              /\ <<req[p].uid, loc[p].safe_name>>
                   # <<req[q].uid, loc[q].safe_name>>)
             => doc_id(req[p].uid, loc[p].safe_name)
                  # doc_id(req[q].uid, loc[q].safe_name)
      /\ \A p \in {1, 2} :
           (HoldsRef(p) /\ pc'[p] # pc[p]) =>
             \A id \in DOMAIN records :
               (records[id].uid # req[p].uid
                  \/ records[id].file_name # loc[p].safe_name)
                 => (id \in DOMAIN records' /\ records'[id] = records[id]) ]_vars

\* Two owners, one of them with ":" in the uid, have written records for
\* the same sanitized name and both records are there.
Witness_C20 ==
  \E i \in DOMAIN records, j \in DOMAIN records :
    /\ i # j
    /\ records[i].file_name = records[j].file_name
    /\ records[i].uid = <<"A">>
    /\ records[j].uid = <<"A", ":">>

(***************************************************************************)
(* Encrypt and decrypt requests at the same time                           *)
(***************************************************************************)
\* Worker q handles an encrypt request for the owner and name of worker
\* p's decrypt request.
EncryptsBeside(q, p) ==
  /\ q # p
  /\ req[p].op = "decrypt" /\ req[q].op = "encrypt"
  /\ req[q].uid = req[p].uid
  /\ sanitize_filename(req[q].filename).name = loc[p].safe_name

\* C21: an encrypt and a decrypt request for the same owner and file may
\* interleave.  The record write of the one keeps the field of the other
\* (line 282 keeps last_opemed_at, line 343 keeps aes_key), and a decrypt
\* that runs beside the encrypt and gets as far as an output has the
\* uploaded plaintext as that output.
Claim_C21 ==
  [][ \A p \in Procs :
        /\ (pc[p] = "enc_282" /\ pc'[p] # pc[p]) =>
             LET id == doc_id(req[p].uid, loc[p].safe_name)
             IN field(records', id, "last_opemed_at")
                  = field(records, id, "last_opemed_at")
        /\ (pc[p] = "dec_343" /\ pc'[p] # pc[p]) =>
             LET id == doc_id(req[p].uid, loc[p].safe_name)
             IN field(records', id, "aes_key") = field(records, id, "aes_key")
        /\ (pc[p] = "df_43" /\ pc'[p] = "df_54"
              /\ \E q \in Procs : EncryptsBeside(q, p)) =>
             loc'[p].blob.bytes = uploads[loc[p].safe_name].bytes ]_vars

(***************************************************************************)
(* Encrypting again                                                        *)
(***************************************************************************)
\* The AES key a ciphertext blob was made with, and the one a key blob or a
\* record's aes_key field opens to under the private key on disk.
KeyOfCiphertext(blob) == blob.bytes.ciphertext.key
KeyOfWrapped(wrapped) == rsa_decrypt(wrapped, privKey).key

\* Worker p is in an encrypt request for a record that holds a wrapped key.
ReEncrypts(p) ==
  /\ req[p].op = "encrypt"
  /\ pc[p] \in {"ef_41", "ef_43", "ef_53", "enc_280", "enc_282"}
  /\ field(records, doc_id(req[p].uid, loc[p].safe_name), "aes_key") # None

\* C22: encrypting an encrypted file again supersedes the old key.  With
\* one request at a time, no step of such a request fails; line 41 of
\* encrypt_file replaces the ciphertext blob by one under an AES key the old
\* one was not made with, line 53 replaces the key blob by one that opens to
\* that key, line 282 puts that key blob into the record; and the output of
\* a decrypt request is the uploaded plaintext.
Thm_C22 ==
  [][ \A p \in {1} :
        /\ (ReEncrypts(p) /\ pc'[p] # pc[p]) =>
             LET e == enc_name(loc[p].safe_name)
                 k == key_name(loc[p].safe_name)
                 id == doc_id(req[p].uid, loc[p].safe_name)
             IN /\ resp'[p].status \in {0, 200}
                /\ pc[p] = "ef_41" =>
                     /\ Has(encrypted, e)
                     /\ KeyOfCiphertext(encrypted'[e])
                          # KeyOfCiphertext(encrypted[e])
                     /\ KeyOfCiphertext(encrypted'[e]) = loc[p].aes_key
                /\ pc[p] = "ef_53" =>
                     /\ Has(encrypted, k)
                     /\ encrypted'[k] # encrypted[k]
                     /\ KeyOfWrapped(encrypted'[k].bytes)
                          = KeyOfCiphertext(encrypted[e])
                /\ pc[p] = "enc_282" =>
                     /\ resp'[p].status = 200
                     /\ records'[id].aes_key # records[id].aes_key
                     /\ records'[id].aes_key = b64encode(encrypted[k].bytes)
                     /\ KeyOfWrapped(b64decode(records'[id].aes_key).bytes)
                          = KeyOfCiphertext(encrypted[e])
        /\ (pc[p] = "df_54" /\ pc'[p] # pc[p]) =>
             decrypted'[loc[p].safe_name].bytes
               = uploads[loc[p].safe_name].bytes ]_vars

\* The file was encrypted, encrypted again, and the decrypt request that
\* followed has been answered 200.
Witness_C22 ==
  /\ nextAes = 3
  /\ KeyOfCiphertext(encrypted[enc_name(NameA)]) = 2
  /\ resp[1].op = "decrypt" /\ resp[1].status = 200
  /\ Has(decrypted, NameA)

(***************************************************************************)
(* Decrypting again                                                        *)
(***************************************************************************)
DecLabels ==
  {"dec_303", "dec_323", "dec_325", "dec_329", "df_29", "df_43", "df_54",
   "dec_343"}

\* Worker p takes a step of a decrypt request past the key check.
decrypt_step(p) ==
  /\ req[p].op = "decrypt"
  /\ pc[p] \in DecLabels
  /\ pc'[p] # pc[p]

\* C23: decrypting keeps the encrypted state and can be repeated.  No step
\* of a decrypt request changes the upload blobs, a ciphertext blob that is
\* there or the aes_key field of a record; and, with one request at a time,
\* a decrypt request for a file that was decrypted before does not fail,
\* writes the output that is already there, and changes of the record only
\* last_opemed_at, which it sets to a later time.
Thm_C23 ==
  [][ \A p \in {1} :
        decrypt_step(p) =>
          /\ uploads' = uploads
          /\ \A n \in DOMAIN encrypted :
               endswith(n, DotEnc) => encrypted'[n] = encrypted[n]
          /\ \A id \in DOMAIN records :
               field(records', id, "aes_key") = field(records, id, "aes_key")
          /\ (pc[p] # "dec_303" /\ Has(decrypted, loc[p].safe_name)) =>
               LET id == doc_id(req[p].uid, loc[p].safe_name)
               IN /\ resp'[p].status \in {0, 200}
                  /\ decrypted' = decrypted
                  /\ pc[p] = "df_54" => loc[p].blob = decrypted[loc[p].safe_name]
                  /\ pc[p] # "dec_343" => records' = records
                  /\ pc[p] = "dec_343" =>
                       /\ resp'[p].status = 200
                       /\ records' = [records EXCEPT
                                        ![id].last_opemed_at =
                                           records'[id].last_opemed_at]
                       /\ records'[id].last_opemed_at
                            > records[id].last_opemed_at ]_vars

\* The file has been decrypted twice.
Witness_C23 ==
  /\ resp[1].op = "decrypt" /\ resp[1].status = 200
  /\ Has(decrypted, NameA)
  /\ records[doc_id(A, NameA)].last_opemed_at = 3

(***************************************************************************)
(* The lifecycle of a record                                               *)
(***************************************************************************)
\* The record has been stamped by a decrypt request / holds a wrapped key.
Opened(doc) == "last_opemed_at" \in DOMAIN doc /\ doc.last_opemed_at # 0
Wrapped(doc) == get_aes_key(doc) # None

\* uploaded -> encrypted -> decrypted, no stage skipped
LifecycleOrder ==
  \A id \in DOMAIN records :
    /\ Opened(records[id]) => Wrapped(records[id])
    /\ Wrapped(records[id]) =>
         Has(encrypted, enc_name(owned_name(records[id])))

\* no stage undone
LifecycleKept ==
  \A id \in DOMAIN records :
    /\ id \in DOMAIN records'
    /\ Wrapped(records[id]) => Wrapped(records'[id])
    /\ Opened(records[id]) => Opened(records'[id])

\* C24: the lifecycle of a record is never skipped or reversed.  In every
\* reachable state a record stamped by a decrypt holds a wrapped key and a
\* record that holds a wrapped key has its ciphertext blob on disk; and no
\* step removes a record, a wrapped key or a decrypt stamp.
Claim_C24 == []LifecycleOrder /\ [][LifecycleKept]_vars

(***************************************************************************)
(* encrypt_file and decrypt_file with key files of any two keypairs        *)
(*                                                                         *)
(* ensure_rsa_keys does not compare the two key files.  Here the private   *)
(* key file and the public key file each hold a key of keypair 0 or 1, and *)
(* one client at a time encrypts and decrypts an uploaded file.            *)
(***************************************************************************)
InitKeypairs ==
  /\ \E k1 \in 0..1, k2 \in 0..1 :
       /\ privKey = PrivatePem(k1)
       /\ pubKey = public_key(PrivatePem(k2))
  /\ nextRsa = 2
  /\ nreq = 0
  /\ InitWorkers
  /\ users = Empty
  /\ \E plain \in {<<>>, UploadData(A)} :
       /\ uploads = Put(Empty, NameA, Blob(plain, {A}))
       /\ records = Put(Empty, doc_id(A, NameA),
                        batch_doc(A, NameA, Len(plain), 1, OkMeta))
  /\ encrypted = Empty
  /\ decrypted = Empty
  /\ nextAes = 1
  /\ clock = 2

SpecKeypairs == InitKeypairs /\ [][NextRoundTrip]_vars

\* C25: key isolation.  When decrypt_file unwraps a key blob that was
\* wrapped under the public key of another keypair than the one of the
\* private key file, the request ends with the ValueError of the failed
\* unwrap (500) and writes nothing; while the two key files are of
\* different keypairs no decrypted output is ever written.
Thm_C25 ==
  [][ /\ \A p \in {1} :
           (pc[p] = "df_29" /\ loc[p].encrypted_key.pair # privKey.id) =>
             /\ resp'[p].status = 500
             /\ resp'[p].detail = "ValueError: decryption failed"
             /\ pc'[p] = "idle"
             /\ decrypted' = decrypted
      /\ privKey.id # pubKey.id => decrypted' = Empty ]_vars

\* A decrypt request has failed at the unwrap of a key blob made under the
\* other keypair.
Witness_C25 ==
  /\ privKey.id # pubKey.id
  /\ Has(encrypted, key_name(NameA))
  /\ encrypted[key_name(NameA)].bytes.pair = pubKey.id
  /\ resp[1].op = "decrypt" /\ resp[1].status = 500
  /\ resp[1].detail = "ValueError: decryption failed"

(***************************************************************************)
(* What is stored of an AES key                                            *)
(***************************************************************************)
\* The bytes are an RSA-OAEP ciphertext.
IsWrapped(bytes) == bytes.kind = "oaep"

\* C26: no plaintext AES key is persisted.  Every key blob in the encrypted
\* directory is an RSA-OAEP ciphertext, every aes_key field of a record is
\* null or the base64 text of one, and no user profile has an AES key field.
Thm_C26 ==
  /\ \A n \in DOMAIN encrypted :
       endswith(n, DotKey) => IsWrapped(encrypted[n].bytes)
  /\ \A id \in DOMAIN records :
       Wrapped(records[id]) =>
         /\ b64decode(records[id].aes_key).ok
         /\ IsWrapped(b64decode(records[id].aes_key).bytes)
  /\ \A uid \in DOMAIN users : "aes_key" \notin DOMAIN users[uid]

\* An encrypt request has drawn an AES key and stored the key blob and the
\* record field.
Witness_C26 ==
  /\ Has(encrypted, key_name(NameA))
  /\ Has(records, doc_id(A, NameA))
  /\ Wrapped(records[doc_id(A, NameA)])
  /\ KeyOfCiphertext(encrypted[enc_name(NameA)]) >= 1
  /\ \E p \in Procs : resp[p].op = "encrypt" /\ resp[p].status = 200

(***************************************************************************)
(* decrypt_file on a ciphertext blob changed on disk                       *)
(*                                                                         *)
(* One client at a time encrypts and decrypts an uploaded file; between    *)
(* requests one bit of the ciphertext blob, in its IV or in its ciphertext *)
(* part, is flipped on disk.                                               *)
(***************************************************************************)
FlipBits == {0, 7}

TamperPlainLens == {0, 1, 16, 17}

Untouched(blob) == blob.bytes.iv.flip = <<>> /\ blob.bytes.ciphertext.flip = <<>>

\* bit b of byte i of the blob flipped: bytes 1..16 are the IV
flipped(blob, i, b) ==
  IF i <= BlockSize
  THEN [blob EXCEPT !.bytes.iv.flip = <<i, b>>]
  ELSE [blob EXCEPT !.bytes.ciphertext.flip = <<i - BlockSize, b>>]

flip_a_bit ==
  /\ \A p \in Workers : pc[p] = "idle"
  /\ Has(encrypted, enc_name(NameA))
  /\ Untouched(encrypted[enc_name(NameA)])
  /\ \E i \in 1..(BlockSize
                   + Len(encrypted[enc_name(NameA)].bytes.ciphertext.padded)),
        b \in FlipBits :
       encrypted' = Put(encrypted, enc_name(NameA),
                        flipped(encrypted[enc_name(NameA)], i, b))
  /\ UNCHANGED <<keyVars, docVars, uploads, decrypted, nextAes, nreq,
                 req, procVars>>

InitTamper ==
  LET private_pem == PrivatePem(0)
  IN /\ privKey = private_pem /\ pubKey = public_key(private_pem)
     /\ nextRsa = 1
     /\ nreq = 0
     /\ InitWorkers
     /\ users = Empty
     /\ \E n \in TamperPlainLens :
          LET plain == [i \in 1..n |-> 1]
          IN /\ uploads = Put(Empty, NameA, Blob(plain, {A}))
             /\ records = Put(Empty, doc_id(A, NameA),
                              batch_doc(A, NameA, Len(plain), 1, OkMeta))
     /\ encrypted = Empty
     /\ decrypted = Empty
     /\ nextAes = 1
     /\ clock = 2

NextTamper == NextRoundTrip \/ flip_a_bit

SpecTamper == InitTamper /\ [][NextTamper]_vars

\* C27: tamper detection.  When decrypt_file decrypts a ciphertext blob of
\* which one bit was flipped after encryption, decryption fails: the request
\* ends 500 and no output is written.
Claim_C27 ==
  [][ \A p \in {1} :
        (pc[p] = "df_43" /\ pc'[p] # pc[p]
           /\ ~Untouched(encrypted[enc_name(loc[p].safe_name)]))
          => /\ resp'[p].status = 500
             /\ pc'[p] = "idle"
             /\ decrypted' = decrypted ]_vars

(***************************************************************************)
(* Requests for a file whose upload blob may be gone                       *)
(*                                                                         *)
(* A has a record for a file; the blob in the upload directory is there or *)
(* is not (the directory is plain disk and outlives no redeployment); B    *)
(* has no record.  One client at a time sends encrypt and decrypt          *)
(* requests.                                                               *)
(***************************************************************************)
InitSourceBlob ==
  LET private_pem == PrivatePem(0)
      plain == UploadData(A)
  IN /\ privKey = private_pem /\ pubKey = public_key(private_pem)
     /\ nextRsa = 1
     /\ nreq = 0
     /\ InitWorkers
     /\ users = Empty
     /\ uploads \in {Empty, Put(Empty, NameA, Blob(plain, {A}))}
     /\ records = Put(Empty, doc_id(A, NameA),
                      batch_doc(A, NameA, Len(plain), 1, OkMeta))
     /\ encrypted = Empty
     /\ decrypted = Empty
     /\ nextAes = 1
     /\ clock = 2

SpecSourceBlob == InitSourceBlob /\ [][NextRoundTrip]_vars

\* C28: encrypt checks its preconditions in order and changes nothing when
\* one fails.  Without the caller's record the request ends 404 "File
\* metadata not found for user" whether the source blob is there or not;
\* with the record and without the source blob it ends 404 "Source file not
\* found in uploads"; either way no blob and no record is written.
Thm_C28 ==
  [][ \A p \in {1} :
        (pc[p] = "enc_253" /\ pc'[p] # pc[p]
           /\ name_given(req[p].filename)
           /\ sanitize_filename(req[p].filename).ok) =>
          LET name == sanitize_filename(req[p].filename).name
              id == doc_id(req[p].uid, name)
          IN /\ ~Has(records, id) =>
                  /\ resp'[p].status = 404
                  /\ resp'[p].detail = "File metadata not found for user"
                  /\ NothingStored
             /\ (Has(records, id) /\ ~Has(uploads, name)) =>
                  /\ resp'[p].status = 404
                  /\ resp'[p].detail = "Source file not found in uploads"
                  /\ NothingStored ]_vars

\* A's encrypt request was answered 404 for the missing source blob.
Witness_C28 ==
  /\ resp[1].op = "encrypt" /\ resp[1].to = A
  /\ resp[1].status = 404
  /\ resp[1].detail = "Source file not found in uploads"
  /\ ~Has(uploads, NameA)
  /\ encrypted = Empty

(***************************************************************************)
(* The stored envelope                                                     *)
(***************************************************************************)
\* No encrypt or decrypt request is being handled.
NoCryptInFlight == \A p \in Procs : req[p].op \notin {"encrypt", "decrypt"}

\* The key blob of a name wraps the AES key its ciphertext blob was made
\* with, and a record of that name that holds a wrapped key holds the
\* base64 text of that key blob.
Coherent(name) ==
  (Has(encrypted, enc_name(name)) /\ Has(encrypted, key_name(name))) =>
    /\ encrypted[key_name(name)].bytes.key
         = KeyOfCiphertext(encrypted[enc_name(name)])
    /\ \A uid \in Uids :
         (Has(records, doc_id(uid, name))
            /\ Wrapped(records[doc_id(uid, name)])) =>
           records[doc_id(uid, name)].aes_key
             = b64encode(encrypted[key_name(name)].bytes)

\* C29: whenever no encrypt or decrypt request is in flight the stored
\* envelope of every file is coherent.
Claim_C29 == NoCryptInFlight => \A name \in CryptNames : Coherent(name)

(***************************************************************************)
(* Upload blobs and their records                                          *)
(***************************************************************************)
\* No upload request, single or batch, is being handled.
NoUploadInFlight == \A p \in Procs : req[p].op \notin {"upload", "batch"}

\* C30: no orphan upload blob.  Whenever no upload request is in flight,
\* every blob in the upload directory has the file record of an owner who
\* stored it.
Claim_C30 ==
  NoUploadInFlight =>
    \A name \in DOMAIN uploads :
      \E uid \in uploads[name].by : Has(records, doc_id(uid, name))

(***************************************************************************)
(* Requests for the wrapped-key blob                                       *)
(*                                                                         *)
(* A has uploaded the file a; nobody, A or B has also uploaded a file      *)
(* whose name is that of the key blob encrypt writes for a.  One client at *)
(* a time sends encrypt requests and download requests, in every category, *)
(* for that name and for the name with the suffix of a ciphertext.         *)
(***************************************************************************)
KeyBlobName == key_name(NameA)

KeyBlobTargets ==
  { <<category, KeyBlobName>> : category \in Categories }
    \cup { <<"encrypted", enc_name(KeyBlobName)>> }

\* the same upload under the name of the key blob, by one owner
UploadedAs(uid, name, up, recs) ==
  [uploads |-> Put(up, name, Blob(UploadData(uid), {uid})),
   records |-> Put(recs, doc_id(uid, name),
                   batch_doc(uid, name, Len(UploadData(uid)), 2, OkMeta))]

InitKeyBlob ==
  LET private_pem == PrivatePem(0)
      first == UploadedAs(A, NameA, Empty, Empty)
  IN /\ privKey = private_pem /\ pubKey = public_key(private_pem)
     /\ nextRsa = 1
     /\ nreq = 0
     /\ InitWorkers
     /\ users = Empty
     /\ \E stored \in {first} \cup
            { UploadedAs(uid, KeyBlobName, first.uploads, first.records) :
                uid \in Uids } :
          uploads = stored.uploads /\ records = stored.records
     /\ encrypted = Empty
     /\ decrypted = Empty
     /\ nextAes = 1
     /\ clock = 3

start_download_key(p) ==
  /\ pc[p] = "handler"
  /\ \E target \in KeyBlobTargets :
       dispatch(p, [req[p] EXCEPT !.op = "download", !.category = target[1],
                                  !.filename = target[2]])

NextKeyBlob ==
  \E p \in {1} :
    \/ arrive(p) \/ ek_26(p) \/ sync_55(p) \/ sync_71(p)
    \/ start_encrypt(p)
    \/ enc_253(p) \/ ef_41(p) \/ ef_43(p) \/ ef_53(p) \/ enc_280(p) \/ enc_282(p)
    \/ start_download_key(p) \/ dl_377(p)

SpecKeyBlob == InitKeyBlob /\ [][NextKeyBlob]_vars

\* the blob under that name in the encrypted directory is a wrapped key
NamesKeyBlob(name) ==
  /\ endswith(name, DotKey)
  /\ Has(encrypted, name)
  /\ IsWrapped(encrypted[name].bytes)

\* C31: download never releases a wrapped-key blob.  A download request, in
\* any category, whose sanitized name ends in ".key" and names a key blob
\* written by encrypt ends in 403 or 404, unless the caller has a record of
\* an upload with exactly that name and asks in the uploads or decrypted
\* category; and what such a request is sent is then not the key blob.
Thm_C31 ==
  [][ \A p \in {1} :
        (pc[p] = "dl_377" /\ pc'[p] # pc[p]
           /\ sanitize_filename(req[p].filename).ok
           /\ NamesKeyBlob(sanitize_filename(req[p].filename).name)) =>
          LET name == sanitize_filename(req[p].filename).name
              own_upload == /\ req[p].category \in {"uploads", "decrypted"}
                            /\ Has(records, doc_id(req[p].uid, name))
          IN /\ ~own_upload => resp'[p].status \in {403, 404}
             /\ resp'[p].status = 200 =>
                  resp'[p].body # encrypted[name] ]_vars

\* The key blob of a is on disk, and the owner of an upload of that very
\* name asked for it in the encrypted category: refused with 403.
Witness_C31 ==
  /\ NamesKeyBlob(KeyBlobName)
  /\ resp[1].op = "download"
  /\ Has(records, doc_id(resp[1].to, KeyBlobName))
  /\ resp[1].status = 403
  /\ resp[1].detail = "Access denied for requested file"

\* the labels of a request that has passed get_current_user
PastAuth == {"handler"} \cup {entry(op) : op \in {"upload", "batch", "download"}}
              \cup {after_keys(op) : op \in {"encrypt", "decrypt"}}

\* C32: with the public key file present and the private key file missing,
\* every request with a valid token ends 500 inside get_current_user and
\* nothing is written.  In every step taken in that key store state, the key
\* files, the profiles, the file records and the three blob directories stay
\* as they are; no worker reaches its handler or the profile write; and a
\* request that ends, ends 500 with the missing-private-key detail.
Thm_C32 ==
  [][OnlyPublic =>
       /\ UNCHANGED <<privKey, pubKey, users, records,
                      uploads, encrypted, decrypted>>
       /\ \A p \in Procs :
            /\ pc'[p] \in {"idle", "ek_26", "ek_41"}
            /\ pc'[p] \notin PastAuth
            /\ (pc[p] # "idle" /\ pc'[p] = "idle") =>
                 /\ resp'[p].status = 500
                 /\ resp'[p].detail = "Missing private key at PRIVATE_KEY_PATH. Cannot decrypt without it."]_vars

\* The deployment in use has lost its private key file: both A, who has a
\* profile and an encrypted file, and B, who has nothing, were answered 500,
\* and the stores are as they were.
Witness_C32 ==
  /\ OnlyPublic
  /\ Has(records, doc_id(A, NameA)) /\ Has(encrypted, enc_name(NameA))
  /\ DOMAIN users = {A}
  /\ resp[1].to = A /\ resp[2].to = B
  /\ \A p \in Procs :
       /\ resp[p].status = 500
       /\ resp[p].detail = "Missing private key at PRIVATE_KEY_PATH. Cannot decrypt without it."

(***************************************************************************)
(* Batches of several files                                                *)
(*                                                                         *)
(* The keypair is in place; the upload directory is empty or holds the     *)
(* file b that B uploaded.  Two clients send batches: of two or three      *)
(* files with the second or third one lacking its tag or its expiry time   *)
(* or naming a file that is there, of no file, of one file more than the   *)
(* maximum, and with metadata that is not JSON or is a JSON scalar.        *)
(***************************************************************************)
NameB == <<"b">>

NoExpiryMeta == [OkMeta EXCEPT !.expiry_time = None]
Keyed(meta, key) == [meta EXCEPT !.key = key]
DictOf(items) == [kind |-> "dict", items |-> items]

LongBatches(data) ==
  LET a == File(NameA, data)
      b == File(NameB, data)
      ok == ListOf(<<OkMeta, OkMeta, OkMeta>>)
  IN { [files |-> <<a, b>>, metadata |-> ok],
       [files |-> <<a, b>>, metadata |-> ListOf(<<OkMeta, NoTagMeta>>)],
       [files |-> <<a, b>>, metadata |-> ListOf(<<OkMeta, NoExpiryMeta>>)],
       [files |-> <<a, b>>, metadata |-> DictOf(<<Keyed(OkMeta, NameA)>>)],
       [files |-> <<a, b, a>>, metadata |-> ok],
       [files |-> <<>>, metadata |-> ok],
       [files |-> [i \in 1..(MAX_UPLOAD_FILES + 1) |-> a], metadata |-> ok],
       [files |-> <<a>>, metadata |-> [kind |-> "invalid", items |-> <<>>]],
       [files |-> <<a>>, metadata |-> [kind |-> "scalar", items |-> <<>>]] }

start_long_batch(p) ==
  /\ pc[p] = "handler"
  /\ \E b \in LongBatches(UploadData(req[p].uid)) :
       dispatch(p, [req[p] EXCEPT !.op = "batch", !.files = b.files,
                                  !.metadata = b.metadata])

InitBatch ==
  LET private_pem == PrivatePem(0)
  IN /\ privKey = private_pem /\ pubKey = public_key(private_pem)
     /\ nextRsa = 1
     /\ nreq = 1
     /\ InitWorkers
     /\ users = Empty
     /\ \E stored \in { [uploads |-> Empty, records |-> Empty],
                        UploadedAs(B, NameB, Empty, Empty) } :
          uploads = stored.uploads /\ records = stored.records
     /\ encrypted = Empty
     /\ decrypted = Empty
     /\ nextAes = 1
     /\ clock = 3

NextBatch ==
  \E p \in Procs :
    \/ arrive(p) \/ ek_26(p) \/ sync_55(p) \/ sync_71(p)
    \/ start_long_batch(p)
    \/ bt_157(p) \/ bt_187(p) \/ bt_213(p) \/ bt_214(p) \/ bt_220(p) \/ bt_232(p)

SpecBatch == InitBatch /\ [][NextBatch]_vars

\* the safe name of the file at position j of p's batch
batch_name(p, j) == sanitize_filename(or_default(req[p].files[j].filename)).name

\* The file at position j of p's batch is stored: its blob is in the upload
\* directory, holding the bytes sent unless another request wrote that name
\* too, and the caller has its record.
BatchFileStored(p, j) ==
  LET name == batch_name(p, j)
      id == doc_id(req[p].uid, name)
  IN /\ Has(uploads, name)
     /\ uploads[name].by = {req[p].uid} =>
          uploads[name].bytes = req[p].files[j].data
     /\ Has(records, id)
     /\ records[id].uid = req[p].uid
     /\ records[id].file_name = name

\* the position of the file p's batch is at
batch_index(p) == IF pc[p] = "bt_157" THEN 1 ELSE loc[p].index

\* the batch is rejected as a whole by lines 157-182
RejectedWhole(r) ==
  \/ r.files = <<>>
  \/ Len(r.files) > MAX_UPLOAD_FILES
  \/ r.metadata.kind \notin {"list", "dict"}

\* C33: a batch is processed file by file in order and is not rolled back.
\* (1) A batch with no file, with more than 15 files or with invalid
\* metadata ends 400 in its first step, which writes no blob and no record.
\* (2) The step that rejects file i (400 for the tag or the expiry time, 409
\* for the name) writes nothing and ends the request, and the files before
\* i are stored.  (3) A step of the batch that writes, writes the blob or
\* the record of the file the batch is at and of no other, and the batch
\* moves on by one file at a time; the files before that position are
\* stored.
Thm_C33 ==
  [][ \A p \in Procs :
        (req[p].op = "batch" /\ pc'[p] # pc[p]) =>
          /\ (pc[p] = "bt_157" /\ RejectedWhole(req[p])) =>
               /\ pc'[p] = "idle" /\ resp'[p].status = 400
               /\ NothingStored
          /\ (pc[p] \in {"bt_157", "bt_187"} /\ pc'[p] = "idle"
                /\ resp'[p].status # 200) =>
               /\ resp'[p].status \in {400, 409}
               /\ NothingStored
               /\ ~RejectedWhole(req[p]) =>
                    \A j \in 1..(batch_index(p) - 1) : BatchFileStored(p, j)
          /\ pc[p] \in {"bt_213", "bt_214", "bt_220", "bt_232"} =>
               LET i == loc[p].index
                   name == batch_name(p, i)
                   id == doc_id(req[p].uid, name)
               IN /\ i \in 1..Len(req[p].files)
                  /\ \A n \in (DOMAIN uploads \cup DOMAIN uploads') \ {name} :
                       Has(uploads, n) /\ Has(uploads', n)
                         /\ uploads'[n] = uploads[n]
                  /\ \A d \in (DOMAIN records \cup DOMAIN records') \ {id} :
                       Has(records, d) /\ Has(records', d)
                         /\ records'[d] = records[d]
                  /\ UNCHANGED <<encrypted, decrypted>>
                  /\ loc'[p].index = IF pc[p] = "bt_232" THEN i + 1 ELSE i
                  /\ \A j \in 1..(i - 1) : BatchFileStored(p, j) ]_vars

\* A's batch of a and b, b without its tag, was answered 400: a is stored
\* with its record, and b has neither blob nor record.
Witness_C33 ==
  /\ resp[1].op = "batch" /\ resp[1].to = A
  /\ resp[1].status = 400 /\ resp[1].detail = "Missing tag"
  /\ resp[2] = NoResp /\ pc[2] = "idle"
  /\ Has(uploads, NameA) /\ uploads[NameA] = Blob(UploadData(A), {A})
  /\ Has(records, doc_id(A, NameA))
  /\ ~Has(uploads, NameB) /\ ~Has(records, doc_id(A, NameB))

====
